---- MODULE Spec2Model ----
(***************************************************************************)
(* Verification model of the Kinect 3D video capture package:              *)
(*   - MultiplexedFrameSource: the demultiplexing receive thread, the      *)
(*     per-stream start/stop/destructor operations and the owner's         *)
(*     reference count (src/Kinect/MultiplexedFrameSource.cpp);            *)
(*   - FrameBuffer: the reference-counted payload (src/Kinect/FrameBuffer.h)*)
(*   - the viewers' use of frame buffers and triple buffers                *)
(*     (src/BackgroundViewer.cpp, src/RawKinectViewer.cpp).                *)
(***************************************************************************)
EXTENDS Integers, Sequences, FiniteSets, TLC

(* Bounds of the model *)
MaxStreams == 2
MaxMeta == 3
MaxMetaConc == 2
MaxStarts == 1
MaxHandles == 3
MaxBuffers == 2
MaxPixels == 2
MaxFrames == 3
MaxValue == 2
MaxTiePoints == 6
MaxSessions == 2
MaxCameras == 2
MaxAcquisitions == 4
MaxSetCalls == 3
MaxCapture == 2
MaxAverageFrames == 2
MaxRequests == 3

VARIABLES
  (* ---- MultiplexedFrameSource ---- *)
  numStreams,                \* number of sub-streams announced by the server
  pipe,                      \* headers in flight from the server, in order
  srvSent,                   \* history: the metaframes the server has sent
  srvIdx,                    \* metaframe index the server uses next
  hdr,                       \* (metaFrameIndex, frameId) read by the receive thread
  rpc,                       \* position of the receive thread
  loopI,                     \* loop variable i of the dispatch pass
  currentMetaFrameIndex,
  numMissingColorFrames,
  numMissingDepthFrames,
  frames,                    \* FrameBuffer frames[numStreams*2]
  streams,                   \* Stream* streams[numStreams] (TRUE: non-null)
  numStreamsAlive,
  streaming,                 \* Stream::streaming
  colorStreamingCallback,    \* Stream::colorStreamingCallback (0: null)
  depthStreamingCallback,    \* Stream::depthStreamingCallback (0: null)
  streamMutex,               \* owner of MultiplexedFrameSource::streamMutex
  streamingMutex,            \* owner of each Stream::streamingMutex
  callbacks,                 \* history: the callback invocations, in order
  running,                   \* the callback invocation in progress, or NoCall
  upc,                       \* position of the user thread handling each stream
  lastOneOut,                \* local of each ~Stream
  ownerDeleted,              \* number of times the owner was deleted
  cbDeleted,                 \* callback objects that have been deleted
  nextCb,                    \* next fresh callback object
  stopReturned,              \* history: stream stopped/destroyed and not restarted
  errLogged,                 \* the receive thread logged a read error
  (* ---- FrameBuffer ---- *)
  refCount,                  \* BufferHeader::refCount of each payload
  freed,                     \* how many times each payload was deleted
  nextBuffer,                \* next payload to be allocated
  hLive,                     \* the FrameBuffer handle object exists
  hOwner,                    \* the thread that owns the handle
  hBuffer,                   \* FrameBuffer::buffer (0: null)
  tOp,                       \* operation each thread is in the middle of
  tHandle,                   \* handle that operation works on
  tSource,                   \* source handle of an assignment in progress
  tOrphan,                   \* payload the thread found orphaned and will delete
  (* ---- BackgroundViewer ---- *)
  bgPc,                      \* position of the main thread
  background,                \* pixels of the payload of the background frame
  backgroundPublished,       \* the background frame was handed to the projector
  backgroundMesh,            \* depth pixels the projector built its mesh from
  savedFile,                 \* pixels written to Background.background
  active,                    \* PaintTool::active
  editRequest,               \* triple buffer of edit requests
  shutdownEditingThread,
  editPc,                    \* position of the editing thread
  haveEdit,                  \* the editing thread's local variable
  edited,                    \* the editing thread's local variable
  editX,                     \* pixel the editing loop is at
  (* ---- RawKinectViewer ---- *)
  paused,
  colorFrames,               \* triple buffer of color frames
  colorFrameVersion,
  depthFrames,               \* triple buffer of depth frames
  depthFrameVersion,
  updateRequested,           \* Vrui::requestUpdate was called
  cameraPc,                  \* position of the camera's streaming thread
  nextFrame,                 \* number of the next frame the camera delivers
  depthPosts,                \* depth frames posted since the last successful lock
  lastPostedDepth,           \* the depth frame posted last
  overwrittenDepth,          \* depth frames posted again over before a lock
  seenDepth,                 \* depth frames the main thread has locked
  lastLock,                  \* what the last call of frame() observed
  frameCallbacksMutex,       \* free, or the thread that holds the spinlock
  colorFrameCallbacks,       \* the registered observers of color frames
  depthFrameCallbacks,       \* the registered observers of depth frames
  colorPc,                   \* position of the color streaming thread
  observerPc,                \* per streaming thread: where its dispatch is
  cbIt,                      \* per streaming thread: its iterator cbIt
  observerRunning,           \* per streaming thread: the observer it is inside
  (* ---- TiePointTool ---- *)
  cornerBuffer,              \* triple buffer of corner extraction results
  cornerPc,                  \* position of the corner extractor's thread
  cornerSlot,                \* newValue of cornerExtractionCallback
  diskBuffer,                \* triple buffer of disk extraction results
  diskPc,                    \* position of the disk extractor's thread
  diskSlot,                  \* newValue of diskExtractionCallback
  disks,                     \* the argument of diskExtractionCallback
  nextDisk,                  \* number of the next disk list extracted
  accumulate,
  tiePoints,                 \* the collected pairs: how many, from which disk lists
  calibration,               \* the last attempt at a calibration and its outcome
  intrinsicParameterFile,    \* what the intrinsic parameter file holds
  backupFile,                \* what the file of the name with .backup holds
  persistPc,                 \* where the writing of the file has got to
  (* ---- direct camera source ---- *)
  camera,                    \* runStreamingThread, the two callbacks, the device
  camThread,                 \* position of the streaming thread
  camCalling,                \* callback object the streaming thread is inside
  camCaller,                 \* position of the thread calling start/stop
  camSessions,               \* number of calls of startStreaming so far
  camDeleted,                \* callback objects that have been deleted
  camLast,                   \* the last call of start/stop: state before, outcome
  (* ---- construction of the multiplexed source ---- *)
  ctorPc,                    \* position of the constructor
  ctorI,                     \* the constructor's loop index i
  ctorError,                 \* the exception the constructor threw
  server,                    \* what the server sends in the handshake
  written,                   \* the words the client has written to the pipe
  wordsRead,                 \* handshake words the client has read
  endiannessFlag,
  swapOnRead,                \* pipe->setSwapOnRead
  serverProtocolVersion,
  allStreamsOk,
  colorFrameReaders,         \* per stream: 0 (null) or 1 (a reader)
  depthFrameReaders,
  readerReleased,            \* per reader: how often it was deleted
  streamCreated,             \* streams whose constructor completed
  streamReleased,            \* per stream: how often it was deleted
  streamHeadersRead,         \* sub-stream headers read from the pipe
  (* ---- the Orbbec SDK context ---- *)
  contextRefCount,           \* OrbbecSDKContext::refCount
  context,                   \* OrbbecSDKContext::context (0: null)
  cameraOrbbec,              \* per camera source: where its life has got to
  acquisitions,              \* calls of acquireContext so far
  contextsCreated,           \* ob::Context objects created so far
  contextsDestroyed,         \* ob::Context objects destroyed so far
  (* ---- ProjectorBase ---- *)
  intrinsicParameters,       \* of these, the depthProjection
  extrinsicParameters,
  worldDepthProjection,
  setCalls,                  \* calls of the two setters so far
  (* ---- FrameSource::DepthCorrection and its files ---- *)
  depthCorrectionFile,       \* the 32-bit words of the file or stream
  dcPos,                     \* words the reader has consumed
  dc,                        \* the DepthCorrection object, or NoObject
  dcPc,                      \* "start" | "read" | "threw"
  writtenFile,               \* the words DepthCorrection::write put out
  pixelCorrection,           \* result of getPixelCorrection(pixel,frameSize)
  depthCorrection,           \* ProjectorBase's per-pixel table
  toolCoefficients,          \* what DepthCorrectionTool solved for
  (* ---- MultiplexedFrameSource::Stream: the sub-stream header ---- *)
  headerFields,              \* what the server put into the header
  headerSource,              \* the typed items of the header on the pipe
  sourcePos,                 \* items consumed by the Stream constructor
  sourceBytes,               \* bytes consumed by the Stream constructor
  streamFormatVersions,      \* <<color, depth>>
  streamDepthCorrection,     \* Stream::depthCorrection, NoObject for 0
  depthIsLossy,
  streamIps,                 \* Stream::ips
  streamPc,                  \* "start" | "read"
  clonedCorrection,          \* result of getDepthCorrectionParameters
  (* ---- CompressDepthFile ---- *)
  backgroundFrame,           \* unsigned short per pixel
  numCaptureFrames,
  compressIn,                \* the depth frame last read
  compressOut,               \* the depth frame last handed to the writer
  capturedMin,               \* per pixel: least fk[p]-2 captured, unwrapped
  backgroundRose,            \* a capture step raised a background value
  (* ---- RawKinectViewer: color background capture and removal ---- *)
  colorBackground,           \* per pixel [min, max] per channel, or null
  backgroundCaptureNumFrames,
  capturePc,                 \* main thread in captureBackgroundCallback
  colorCbPc,                 \* camera thread in colorStreamingCallback
  colorIn,                   \* the frame the callback is working on
  countRegister,             \* the counter as loaded for the decrement
  colorPosted,               \* the frame last posted, with what it came from
  sinceRequest,              \* frames received unpaused since the request
  expectedEnvelope,          \* envelope of the first frames since then
  nullDereferenced,          \* the capture loop ran on a null buffer
  (* ---- BackgroundViewer: the files that go with a background file ---- *)
  backgroundFileName,        \* [dir, name]: the path given, as characters
  serialNumber,              \* the serial extracted, empty if none
  openedFiles,               \* the auxiliary files opened, in order
  loaderPc,                  \* "start" | "depthCorrection" | "intrinsic" | "done"
  (* ---- RawKinectViewer: the observers taken off the lists ---- *)
  unregistered,              \* history: <<list, callback>> removed and not registered again
  (* ---- ProjectorBase: the per-pixel depth correction buffer ---- *)
  depthSize,                 \* width and height of the incoming depth frames
  depthCorrectionBuffer,     \* the array depthCorrection points to, or NullBuffer
  bufferCalls,               \* calls of the two setters so far
  dip,                       \* what the last projectPoint did at its pixel
  (* ---- FrameSource::DepthCorrection: the elements an evaluation touches ---- *)
  scratchObject,             \* [degree, numSegments] of the object evaluated
  scratchAccess,             \* the indices the last evaluation used, per array
  (* ---- RawKinectViewer: the average depth frame ---- *)
  averageFrameCounter,       \* depth frames still to accumulate
  averageFrameValid,         \* the average frame buffer is valid
  showAverageFrame,          \* the user asked for the average frame
  averageFrameReadyCallbacks, \* the callbacks waiting for the capture, in order
  nextAverageCallback,       \* the next callback a tool creates
  averageCallback            \* history, per callback: [state, count, waited, started]

muxVars == <<numStreams, pipe, srvSent, srvIdx, hdr, rpc, loopI,
             currentMetaFrameIndex, numMissingColorFrames, numMissingDepthFrames,
             frames, streams, numStreamsAlive, streaming, colorStreamingCallback,
             depthStreamingCallback, streamMutex, streamingMutex, callbacks,
             running, upc, lastOneOut, ownerDeleted, cbDeleted, nextCb,
             stopReturned, errLogged>>

fbVars == <<refCount, freed, nextBuffer, hLive, hOwner, hBuffer, tOp, tHandle,
            tSource, tOrphan>>

bgVars == <<bgPc, background, backgroundPublished,
            backgroundMesh, savedFile, active, editRequest,
            shutdownEditingThread, editPc, haveEdit, edited, editX>>

observerVars == <<frameCallbacksMutex, colorFrameCallbacks,
                  depthFrameCallbacks, colorPc, observerPc, cbIt,
                  observerRunning>>

viewerVars == <<paused, colorFrames, colorFrameVersion, depthFrames,
                depthFrameVersion, updateRequested, cameraPc, nextFrame,
                depthPosts, lastPostedDepth, overwrittenDepth, seenDepth,
                lastLock, observerVars>>

tpVars == <<cornerBuffer, cornerPc, cornerSlot, diskBuffer, diskPc, diskSlot,
            disks, nextDisk, accumulate, tiePoints, calibration,
                 intrinsicParameterFile, backupFile, persistPc>>

\* the viewer's variables a tool's extraction callback leaves alone
viewerButUpdate == <<paused, colorFrames, colorFrameVersion, depthFrames,
                     depthFrameVersion, cameraPc, nextFrame, depthPosts,
                     lastPostedDepth, overwrittenDepth, seenDepth, lastLock,
                     observerVars>>

camVars == <<camera, camThread, camCalling, camCaller, camSessions,
             camDeleted, camLast>>

ctorVars == <<ctorPc, ctorI, ctorError, server, written, wordsRead,
              endiannessFlag, swapOnRead, serverProtocolVersion, allStreamsOk,
              colorFrameReaders, depthFrameReaders, readerReleased,
              streamCreated, streamReleased, streamHeadersRead>>

sdkVars == <<contextRefCount, context, cameraOrbbec, acquisitions,
             contextsCreated, contextsDestroyed>>

\* the components modelled each on its own
projVars == <<intrinsicParameters, extrinsicParameters, worldDepthProjection,
              setCalls>>

dcVars == <<depthCorrectionFile, dcPos, dc, dcPc, writtenFile, pixelCorrection,
            depthCorrection, toolCoefficients>>

shVars == <<headerFields, headerSource, sourcePos, sourceBytes,
            streamFormatVersions, streamDepthCorrection, depthIsLossy, streamIps,
            streamPc, clonedCorrection>>

cdVars == <<backgroundFrame, numCaptureFrames, compressIn, compressOut,
            capturedMin, backgroundRose>>

cbgVars == <<colorBackground, backgroundCaptureNumFrames, capturePc, colorCbPc,
             colorIn, countRegister, colorPosted, sinceRequest,
             expectedEnvelope, nullDereferenced>>

blVars == <<backgroundFileName, serialNumber, openedFiles, loaderPc>>

urVars == <<unregistered>>

pdVars == <<depthSize, depthCorrectionBuffer, bufferCalls, dip>>

scVars == <<scratchObject, scratchAccess>>

avVars == <<averageFrameCounter, averageFrameValid, showAverageFrame,
            averageFrameReadyCallbacks, nextAverageCallback, averageCallback>>

lateVars == <<blVars, urVars, pdVars, scVars, avVars>>

restVars == <<sdkVars, projVars, dcVars, shVars, cdVars, cbgVars, lateVars>>

firstVars == <<muxVars, fbVars, bgVars, viewerVars, tpVars, camVars, ctorVars>>
nonSdkVars == <<firstVars, projVars, dcVars, shVars, cdVars, cbgVars, lateVars>>
nonProjVars == <<firstVars, sdkVars, dcVars, shVars, cdVars, cbgVars, lateVars>>
nonDcVars == <<firstVars, sdkVars, projVars, shVars, cdVars, cbgVars, lateVars>>
nonShVars == <<firstVars, sdkVars, projVars, dcVars, cdVars, cbgVars, lateVars>>
nonCdVars == <<firstVars, sdkVars, projVars, dcVars, shVars, cbgVars, lateVars>>
earlyVars == <<firstVars, sdkVars, projVars, dcVars, shVars, cdVars, cbgVars>>
nonBlVars == <<earlyVars, urVars, pdVars, scVars, avVars>>
nonPdVars == <<earlyVars, blVars, urVars, scVars, avVars>>
nonScVars == <<earlyVars, blVars, urVars, pdVars, avVars>>
nonAvVars == <<earlyVars, blVars, urVars, pdVars, scVars>>
\* all but the viewer and the history of its observer lists
nonViewerNorUr == <<muxVars, fbVars, bgVars, tpVars, camVars, ctorVars,
                    sdkVars, projVars, dcVars, shVars, cdVars, cbgVars, blVars,
                    pdVars, scVars, avVars>>
\* all but the color background and the pause flag
colorBackgroundUnchanged ==
  <<muxVars, fbVars, bgVars, tpVars, camVars, ctorVars, sdkVars, projVars,
    dcVars, shVars, cdVars, lateVars, colorFrames, colorFrameVersion, depthFrames,
    depthFrameVersion, updateRequested, cameraPc, nextFrame, depthPosts,
    lastPostedDepth, overwrittenDepth, seenDepth, lastLock, observerVars>>

nonMuxVars == <<fbVars, bgVars, viewerVars, tpVars, camVars, ctorVars, restVars>>
nonFbVars == <<muxVars, bgVars, viewerVars, tpVars, camVars, ctorVars, restVars>>
nonBgVars == <<muxVars, fbVars, viewerVars, tpVars, camVars, ctorVars, restVars>>
nonViewerVars == <<muxVars, fbVars, bgVars, tpVars, camVars, ctorVars, restVars>>
nonTpVars == <<muxVars, fbVars, bgVars, viewerVars, camVars, ctorVars, restVars>>
nonTpButUpdate == <<muxVars, fbVars, bgVars, viewerButUpdate, camVars, ctorVars, restVars>>
nonCamVars == <<muxVars, fbVars, bgVars, viewerVars, tpVars, ctorVars, restVars>>
nonCtorVars == <<fbVars, bgVars, viewerVars, tpVars, camVars, restVars>>

vars == <<muxVars, fbVars, bgVars, viewerVars, tpVars, camVars, ctorVars, restVars>>

Threads == {"producer", "consumer"}
Handles == 1 .. MaxHandles
Buffers == 1 .. MaxBuffers

Pixels == 1 .. MaxPixels
\* depth values a pixel can hold: a valid depth and FrameSource::invalidDepth
DepthValues == {0, 2047}
Unset == -1

(***************************************************************************)
(* Threads::TripleBuffer: three slots, one held by the consumer, one       *)
(* holding the most recently posted value, one for the producer to write.  *)
(***************************************************************************)

TripleBuffer(v) ==
  [slot |-> <<v, v, v>>, locked |-> 1, mostRecent |-> 2, write |-> 3,
   fresh |-> FALSE]

\* first half of postNewValue(v): the value is written into the write slot
startNewValue(tb, v) == [tb EXCEPT !.slot[tb.write] = v]

\* second half of postNewValue(v): the write slot becomes the most recent
postNewValue(tb) ==
  [tb EXCEPT !.write = tb.mostRecent, !.mostRecent = tb.write, !.fresh = TRUE]

\* lockNewValue(): the triple buffer afterwards; the call returns tb.fresh
lockNewValue(tb) ==
  IF tb.fresh
    THEN [tb EXCEPT !.locked = tb.mostRecent, !.mostRecent = tb.locked,
                    !.fresh = FALSE]
    ELSE tb

getLockedValue(tb) == tb.slot[tb.locked]

\* Edit requests: a sphere, given by the pixels that unproject into it.
Spheres == {{}, Pixels} \cup {{x} : x \in Pixels}
NoSphere == {}

\* BackgroundViewer at the start of its constructor's body, reading fileName.
BackgroundViewerInit ==
  /\ bgPc = "load"
  /\ background = [x \in Pixels |-> Unset]
  /\ backgroundPublished = FALSE
  /\ backgroundMesh = [x \in Pixels |-> Unset]
  /\ savedFile = [x \in Pixels |-> Unset]
  /\ active = FALSE
  /\ editRequest = TripleBuffer(NoSphere)
  /\ shutdownEditingThread = FALSE
  /\ editPc = "notStarted"
  /\ haveEdit = FALSE
  /\ edited = FALSE
  /\ editX = 0

NoLock == [called |-> FALSE, result |-> FALSE, pending |-> 0, before |-> 0,
           after |-> 0, posted |-> 0]

\* RawKinectViewer after its constructor; frame 0 is the invalid frame buffer
\* the triple buffers' slots are constructed with.
RawKinectViewerInit ==
  /\ paused = FALSE
  /\ colorFrames = TripleBuffer(0)
  /\ colorFrameVersion = 0
  /\ depthFrames = TripleBuffer(0)
  /\ depthFrameVersion = 0
  /\ updateRequested = FALSE
  /\ cameraPc = "idle"
  /\ nextFrame = 1
  /\ depthPosts = 0
  /\ lastPostedDepth = 0
  /\ overwrittenDepth = {}
  /\ seenDepth = {}
  /\ lastLock = NoLock
  /\ frameCallbacksMutex = "free"
  /\ colorFrameCallbacks = <<>>
  /\ depthFrameCallbacks = <<>>
  /\ colorPc = "idle"
  /\ observerPc = [t \in {"color", "depth"} |-> "none"]
  /\ cbIt = [t \in {"color", "depth"} |-> 1]
  /\ observerRunning = [t \in {"color", "depth"} |-> 0]

\* if(tiePoints.size()>=5), TiePointTool.cpp line 507
MinTiePoints == 5

\* the intrinsic parameter file as the camera's set-up left it
OriginalFile == [pairs |-> -1,
                 blocks |-> <<"lensDistortion", "depthProjection", "colorProjection">>]
\* no file of that name
Missing == [pairs |-> -1, blocks |-> <<"no file">>]
\* no calibration has been attempted
NoCalibration == [by |-> "none", pairs |-> 0, rank |-> 0, outcome |-> "none",
                  fileBefore |-> OriginalFile]

\* A list of extracted disks: its number in the order of extraction and
\* how many disks it holds; the lists the slots are constructed with are empty.
NoDisks == [seq |-> -1, size |-> 0]

\* TiePointTool after its constructor and initialize()
TiePointToolInit ==
  /\ cornerBuffer = TripleBuffer(0)
  /\ cornerPc = "idle"
  /\ cornerSlot = 0
  /\ diskBuffer = TripleBuffer(NoDisks)
  /\ diskPc = "idle"
  /\ diskSlot = 0
  /\ disks = NoDisks
  /\ nextDisk = 0
  /\ accumulate = FALSE
  /\ tiePoints = [size |-> 0, from |-> {}]
  /\ calibration = NoCalibration
  /\ intrinsicParameterFile = OriginalFile
  /\ backupFile = Missing
  /\ persistPc = "idle"

\* The direct camera source as constructed: not streaming.
CameraIdle ==
  [runStreamingThread |-> FALSE, colorStreamingCallback |-> 0,
   depthStreamingCallback |-> 0, deviceStarted |-> FALSE]

NoCameraCall == [op |-> "none", result |-> "none", before |-> CameraIdle,
                 deletedBefore |-> {}, offered |-> {}, afterFailure |-> FALSE]

CameraInit ==
  /\ camera = CameraIdle
  /\ camThread = "none"
  /\ camCalling = 0
  /\ camCaller = "idle"
  /\ camSessions = 0
  /\ camDeleted = {}
  /\ camLast = NoCameraCall

\* 0x12345678U, MultiplexedFrameSource.cpp line 300
EndiannessMarker == 305419896
\* 0x78563412U, line 305
SwappedMarker == 2018915346
\* the protocol version the client announces, line 301
ProtocolVersion == 1

NoServer == [byteOrder |-> "same", marker |-> EndiannessMarker,
             version |-> ProtocolVersion, numStreams |-> 0]

\* The constructor's own state once it has returned; the specifications of
\* the constructed source start here.
ConstructorReturned ==
  /\ ctorPc = "done"
  /\ ctorI = 0
  /\ ctorError = "none"
  /\ server = NoServer
  /\ written = <<EndiannessMarker, ProtocolVersion>>
  /\ wordsRead = 0
  /\ endiannessFlag = EndiannessMarker
  /\ swapOnRead = FALSE
  /\ serverProtocolVersion = ProtocolVersion
  /\ allStreamsOk = TRUE
  /\ colorFrameReaders = <<>>
  /\ depthFrameReaders = <<>>
  /\ readerReleased = <<>>
  /\ streamCreated = {}
  /\ streamReleased = <<>>
  /\ streamHeadersRead = 0

Cameras == 1 .. MaxCameras

\* OrbbecSDKContext::OrbbecSDKContext, lines 100-104, and no camera source
OrbbecSDKContextInit ==
  /\ contextRefCount = 0
  /\ context = 0
  /\ cameraOrbbec = [c \in Cameras |-> "none"]
  /\ acquisitions = 0
  /\ contextsCreated = 0
  /\ contextsDestroyed = 0

\* Transformations, as the maps x |-> a*x+b of the integers modulo 3 with a
\* invertible: a group in which the order of composition matters.
Transforms == {1, 2} \X {0, 1, 2}

\* t*=u: the transformation that applies u first and t to its result
Compose(t, u) == <<(t[1] * u[1]) % 3, (t[1] * u[2] + t[2]) % 3>>

\* ProjectorBase::ProjectorBase(FrameSource&), lines 42-57, for a frame
\* source with any intrinsic and extrinsic parameters
ProjectorBaseInit ==
  /\ intrinsicParameters \in [depthProjection : Transforms]
  /\ extrinsicParameters \in Transforms
  /\ worldDepthProjection = Compose(extrinsicParameters, intrinsicParameters.depthProjection)
  /\ setCalls = 0

\* the projector of the other specifications
ProjectorBaseIdle ==
  /\ intrinsicParameters = [depthProjection |-> <<1, 0>>]
  /\ extrinsicParameters = <<1, 0>>
  /\ worldDepthProjection = <<1, 0>>
  /\ setCalls = 0

NoObject == [degree |-> -1]

\* no depth correction file in play
DepthCorrectionIdle ==
  /\ depthCorrectionFile = <<>>
  /\ dcPos = 0
  /\ dc = NoObject
  /\ dcPc = "start"
  /\ writtenFile = <<>>
  /\ pixelCorrection = NoObject
  /\ depthCorrection = NoObject
  /\ toolCoefficients = <<>>

\* no sub-stream header in play
StreamHeaderIdle ==
  /\ headerFields = <<>>
  /\ headerSource = <<>>
  /\ sourcePos = 0
  /\ sourceBytes = 0
  /\ streamFormatVersions = <<0, 0>>
  /\ streamDepthCorrection = NoObject
  /\ depthIsLossy = FALSE
  /\ streamIps = <<>>
  /\ streamPc = "start"
  /\ clonedCorrection = NoObject

\* Kinect::FrameSource::invalidDepth=0x07ffU
invalidDepth == 2047

CompressPixels == {1, 2}

\* CompressDepthFile main(), lines 47-53: the background frame is filled
\* with invalidDepth and the capture of numCaptureFrames frames is pending
CompressDepthFileInit ==
  /\ backgroundFrame = [p \in CompressPixels |-> invalidDepth]
  /\ numCaptureFrames = MaxCapture
  /\ compressIn = <<>>
  /\ compressOut = <<>>
  /\ capturedMin = [p \in CompressPixels |-> invalidDepth]
  /\ backgroundRose = FALSE

NullBackground == [min |-> <<>>, max |-> <<>>]
NoColorFrame == <<>>

\* RawKinectViewer::RawKinectViewer, line 808:
\* backgroundCaptureNumFrames(0),colorBackground(0)
ColorBackgroundInit ==
  /\ colorBackground = NullBackground
  /\ backgroundCaptureNumFrames = 0
  /\ capturePc = "idle"
  /\ colorCbPc = "idle"
  /\ colorIn = NoColorFrame
  /\ countRegister = 0
  /\ colorPosted = [frame |-> NoColorFrame, from |-> NoColorFrame, after |-> 0]
  /\ sinceRequest = -1
  /\ expectedEnvelope = NullBackground
  /\ nullDereferenced = FALSE

\* no background file named yet
LoaderIdle ==
  /\ backgroundFileName = [dir |-> <<>>, name |-> <<>>]
  /\ serialNumber = <<>>
  /\ openedFiles = <<>>
  /\ loaderPc = "start"

\* no observer has been unregistered
NoneUnregistered == unregistered = {}

\* the later components but the loader
\* depthCorrection=0
NullBuffer == [allocated |-> FALSE]

\* ProjectorBase::ProjectorBase(void), lines 35-40
ProjectorBufferInit ==
  /\ depthSize = <<0, 0>>
  /\ depthCorrectionBuffer = NullBuffer
  /\ bufferCalls = 0
  /\ dip = "none"

\* no evaluation has run
NoAccess == [at |-> "none", bs |-> {}, bspline |-> {}, controlPoints |-> {}]

ScratchIdle ==
  /\ scratchObject = [degree |-> -1]
  /\ scratchAccess = NoAccess

\* averageNumFrames(150), scaled down
averageNumFrames == MaxAverageFrames

\* the callbacks the tools create
AverageCallbacks == 1 .. MaxRequests

\* RawKinectViewer's constructor, lines 812-814
AverageFrameInit ==
  /\ averageFrameCounter = 0
  /\ averageFrameValid = FALSE
  /\ showAverageFrame = FALSE
  /\ averageFrameReadyCallbacks = <<>>
  /\ nextAverageCallback = 1
  /\ averageCallback =
       [cb \in AverageCallbacks |->
          [state |-> "unused", count |-> 0, waited |-> 0, started |-> FALSE]]

LateButLoaderInit ==
  /\ NoneUnregistered
  /\ ProjectorBufferInit
  /\ ScratchIdle
  /\ AverageFrameInit

LateButScratchInit ==
  /\ LoaderIdle
  /\ NoneUnregistered
  /\ ProjectorBufferInit
  /\ AverageFrameInit

LateInit ==
  /\ LoaderIdle
  /\ LateButLoaderInit

RestInit ==
  /\ LateInit
  /\ ColorBackgroundInit
  /\ OrbbecSDKContextInit
  /\ ProjectorBaseIdle
  /\ DepthCorrectionIdle
  /\ StreamHeaderIdle
  /\ CompressDepthFileInit

\* No frame buffer has been created yet.
FrameBufferInit ==
  /\ refCount = [b \in Buffers |-> 0]
  /\ freed = [b \in Buffers |-> 0]
  /\ nextBuffer = 1
  /\ hLive = [h \in Handles |-> FALSE]
  /\ hOwner = [h \in Handles |-> "producer"]
  /\ hBuffer = [h \in Handles |-> 0]
  /\ tOp = [t \in Threads |-> "idle"]
  /\ tHandle = [t \in Threads |-> 0]
  /\ tSource = [t \in Threads |-> 0]
  /\ tOrphan = [t \in Threads |-> 0]

(***************************************************************************)
(* MultiplexedFrameSource                                                  *)
(***************************************************************************)

Free == "free"
NoCall == [stream |-> -1, kind |-> "none", cb |-> 0]
NoFrame == [mf |-> -1, id |-> -1, seq |-> -1]   \* FrameBuffer(): invalid frame
NoHdr == [mf |-> -1, id |-> -1, seq |-> -1]

StreamIds(n) == 0 .. (n - 1)
FrameIds(n) == 0 .. (2 * n - 1)

\* unsigned int streamIndex=frameId>>1
StreamIndex(frameId) == frameId \div 2

\* frameId&0x1U
IsDepth(frameId) == frameId % 2 = 1

KindOf(frameId) == IF IsDepth(frameId) THEN "depth" ELSE "color"

FrameSlotColor(i, kind) == i * 2
FrameSlotReversed(i, kind) == (numStreams - 1 - i) * 2 + (IF kind = "depth" THEN 1 ELSE 0)
\* frames[i*2+0], frames[i*2+1]
FrameSlot(i, kind) == i * 2 + (IF kind = "depth" THEN 1 ELSE 0)

\* The unsigned counters are kept as the representative of their value
\* modulo 2^32 nearest to zero (-1 stands for 0xffffffff); the code only
\* decrements them and compares them with 0, and fewer than 2^31 frames
\* are received between two resets.
Decrement(c) == c - 1

MetaFrameCompleteAlways(c, d) == TRUE
\* if(numMissingColorFrames==0&&numMissingDepthFrames==0)
MetaFrameComplete(c, d) == c = 0 /\ d = 0

(* The server's metaframes: the order in which it sends the frame ids of   *)
(* one metaframe.  The first three are permutations of all 2N ids; the     *)
(* others are what a faulty or lossy server can send.                      *)
Ascending(n) == [k \in 1 .. 2 * n |-> k - 1]
Descending(n) == [k \in 1 .. 2 * n |-> 2 * n - k]
DepthFirst(n) == [k \in 1 .. 2 * n |-> IF k % 2 = 1 THEN k ELSE k - 2]
Duplicated(n) == [k \in 1 .. 2 * n |-> (k - 1) % 2]
Truncated(n) == [k \in 1 .. 2 * n - 1 |-> k - 1]
Scripts(n) == {Ascending(n), Descending(n), DepthFirst(n), Duplicated(n), Truncated(n)}

Range(s) == {s[k] : k \in DOMAIN s}
IsPermutation(s, n) == Len(s) = 2 * n /\ Range(s) = FrameIds(n)
HasNoDuplicate(s) == \A p, q \in DOMAIN s : p # q => s[p] # s[q]

Headers(idx, s) == [k \in DOMAIN s |-> [mf |-> idx, id |-> s[k], seq |-> k]]

srvUnchanged == <<numStreams, hdr, rpc, loopI, currentMetaFrameIndex,
                  numMissingColorFrames, numMissingDepthFrames, frames, streams,
                  numStreamsAlive, streaming, colorStreamingCallback,
                  depthStreamingCallback, streamMutex, streamingMutex, callbacks,
                  running, upc, lastOneOut, ownerDeleted, cbDeleted, nextCb,
                  stopReturned, errLogged, nonMuxVars>>

\* The server sends the frames of one more metaframe, under a new index.
ServerSend ==
  /\ rpc \notin {"terminated", "cancelled"}
  /\ pipe = <<>>
  /\ Len(srvSent) < MaxMeta
  /\ \E s \in Scripts(numStreams) :
       /\ pipe' = Headers(srvIdx, s)
       /\ srvSent' = Append(srvSent, [idx |-> srvIdx, ids |-> s])
  /\ srvIdx' = srvIdx + 1
  /\ UNCHANGED srvUnchanged

\* A faulty server sends one more set of frames under the index it used last.
ServerRepeat ==
  /\ rpc \notin {"terminated", "cancelled"}
  /\ pipe = <<>>
  /\ srvSent # <<>>
  /\ Len(srvSent) < MaxMeta
  /\ pipe' = Headers(srvIdx - 1, Ascending(numStreams))
  /\ srvSent' = Append(srvSent, [idx |-> srvIdx - 1, ids |-> Ascending(numStreams)])
  /\ UNCHANGED srvIdx
  /\ UNCHANGED srvUnchanged

recvLocals == <<numStreams, streams, numStreamsAlive, streaming,
                colorStreamingCallback, depthStreamingCallback, upc, lastOneOut,
                ownerDeleted, cbDeleted, nextCb, stopReturned, srvSent, srvIdx, nonMuxVars>>

\* receivingThreadMethod, lines 219-227 and 248-252: read the next header;
\* at a change of the metaframe index either enter the dispatch pass or
\* start the next metaframe.
ReadHeader ==
  /\ rpc = "readHeader"
  /\ pipe # <<>>
  /\ hdr' = Head(pipe)
  /\ pipe' = Tail(pipe)
  /\ IF currentMetaFrameIndex # Head(pipe).mf
       THEN IF MetaFrameComplete(numMissingColorFrames, numMissingDepthFrames)
              THEN /\ rpc' = "lockStreams"
                   /\ UNCHANGED <<currentMetaFrameIndex, numMissingColorFrames,
                                  numMissingDepthFrames>>
              ELSE /\ rpc' = "readFrame"
                   /\ currentMetaFrameIndex' = Head(pipe).mf
                   /\ numMissingColorFrames' = numStreams
                   /\ numMissingDepthFrames' = numStreams
       ELSE /\ rpc' = "readFrame"
            /\ UNCHANGED <<currentMetaFrameIndex, numMissingColorFrames,
                           numMissingDepthFrames>>
  /\ UNCHANGED <<loopI, frames, streamMutex, streamingMutex, callbacks, running,
                 errLogged>>
  /\ UNCHANGED recvLocals

\* line 229: Threads::Mutex::Lock streamLock(streamMutex)
DispatchLock ==
  /\ rpc = "lockStreams"
  /\ streamMutex = Free
  /\ streamMutex' = "recv"
  /\ loopI' = 0
  /\ rpc' = "loop"
  /\ UNCHANGED <<pipe, hdr, currentMetaFrameIndex, numMissingColorFrames,
                 numMissingDepthFrames, frames, streamingMutex, callbacks,
                 running, errLogged>>
  /\ UNCHANGED recvLocals

SpinlockHeldOrFree(m) == TRUE
\* Threads::Spinlock::Lock streamingLock(streamingMutex): the caller gets
\* past this line only while nobody holds the spinlock
SpinlockFree(m) == m = Free

\* lines 231-236: streams[i]==0, or the stream is not streaming
DispatchSkip ==
  /\ rpc = "loop"
  /\ loopI < numStreams
  /\ \/ ~streams[loopI]
     \/ streams[loopI] /\ SpinlockFree(streamingMutex[loopI]) /\ ~streaming[loopI]
  /\ loopI' = loopI + 1
  /\ UNCHANGED <<pipe, hdr, rpc, currentMetaFrameIndex, numMissingColorFrames,
                 numMissingDepthFrames, frames, streamMutex, streamingMutex,
                 callbacks, running, errLogged>>
  /\ UNCHANGED recvLocals

\* lines 233-236: lock the stream's spinlock and find it streaming
DispatchEnter ==
  /\ rpc = "loop"
  /\ loopI < numStreams
  /\ streams[loopI]
  /\ SpinlockFree(streamingMutex[loopI])
  /\ streaming[loopI]
  /\ streamingMutex' = [streamingMutex EXCEPT ![loopI] = "recv"]
  /\ rpc' = "color"
  /\ UNCHANGED <<pipe, hdr, loopI, currentMetaFrameIndex, numMissingColorFrames,
                 numMissingDepthFrames, frames, streamMutex, callbacks, running,
                 errLogged>>
  /\ UNCHANGED recvLocals

Invocation(i, kind, cb) ==
  [stream |-> i, kind |-> kind, cb |-> cb, frame |-> frames[FrameSlot(i, kind)],
   closing |-> currentMetaFrameIndex]

\* lines 239-240: (*streams[i]->colorStreamingCallback)(frames[i*2+0])
CallColor ==
  /\ rpc = "color"
  /\ IF colorStreamingCallback[loopI] # 0
       THEN /\ callbacks' = Append(callbacks,
                               Invocation(loopI, "color", colorStreamingCallback[loopI]))
            /\ running' = [stream |-> loopI, kind |-> "color",
                           cb |-> colorStreamingCallback[loopI]]
            /\ rpc' = "colorRunning"
       ELSE /\ rpc' = "depth"
            /\ UNCHANGED <<callbacks, running>>
  /\ UNCHANGED <<pipe, hdr, loopI, currentMetaFrameIndex, numMissingColorFrames,
                 numMissingDepthFrames, frames, streamMutex, streamingMutex,
                 errLogged>>
  /\ UNCHANGED recvLocals

\* the color callback returns
ColorReturn ==
  /\ rpc = "colorRunning"
  /\ running' = NoCall
  /\ rpc' = "depth"
  /\ UNCHANGED <<pipe, hdr, loopI, currentMetaFrameIndex, numMissingColorFrames,
                 numMissingDepthFrames, frames, streamMutex, streamingMutex,
                 callbacks, errLogged>>
  /\ UNCHANGED recvLocals

\* lines 241-244: the depth callback, then the spinlock is released
CallDepth ==
  /\ rpc = "depth"
  /\ IF depthStreamingCallback[loopI] # 0
       THEN /\ callbacks' = Append(callbacks,
                               Invocation(loopI, "depth", depthStreamingCallback[loopI]))
            /\ running' = [stream |-> loopI, kind |-> "depth",
                           cb |-> depthStreamingCallback[loopI]]
            /\ rpc' = "depthRunning"
            /\ UNCHANGED <<loopI, streamingMutex>>
       ELSE /\ rpc' = "loop"
            /\ loopI' = loopI + 1
            /\ streamingMutex' = [streamingMutex EXCEPT ![loopI] = Free]
            /\ UNCHANGED <<callbacks, running>>
  /\ UNCHANGED <<pipe, hdr, currentMetaFrameIndex, numMissingColorFrames,
                 numMissingDepthFrames, frames, streamMutex, errLogged>>
  /\ UNCHANGED recvLocals

\* the depth callback returns; line 244 releases the spinlock
DepthReturn ==
  /\ rpc = "depthRunning"
  /\ running' = NoCall
  /\ rpc' = "loop"
  /\ loopI' = loopI + 1
  /\ streamingMutex' = [streamingMutex EXCEPT ![loopI] = Free]
  /\ UNCHANGED <<pipe, hdr, currentMetaFrameIndex, numMissingColorFrames,
                 numMissingDepthFrames, frames, streamMutex, callbacks, errLogged>>
  /\ UNCHANGED recvLocals

\* lines 246-251: end of the pass; unlock and start the next metaframe
DispatchEnd ==
  /\ rpc = "loop"
  /\ loopI = numStreams
  /\ streamMutex' = Free
  /\ currentMetaFrameIndex' = hdr.mf
  /\ numMissingColorFrames' = numStreams
  /\ numMissingDepthFrames' = numStreams
  /\ rpc' = "readFrame"
  /\ UNCHANGED <<pipe, hdr, loopI, frames, streamingMutex, callbacks, running,
                 errLogged>>
  /\ UNCHANGED recvLocals

\* lines 254-270: read the frame's body into frames[frameId], for a frameId
\* that lies inside the frames array
ReadFrame ==
  /\ rpc = "readFrame"
  /\ hdr.id \in FrameIds(numStreams)
  /\ frames' = [frames EXCEPT ![hdr.id] = hdr]
  /\ IF IsDepth(hdr.id)
       THEN /\ numMissingDepthFrames' = Decrement(numMissingDepthFrames)
            /\ UNCHANGED numMissingColorFrames
       ELSE /\ numMissingColorFrames' = Decrement(numMissingColorFrames)
            /\ UNCHANGED numMissingDepthFrames
  /\ rpc' = "readHeader"
  /\ UNCHANGED <<pipe, hdr, loopI, currentMetaFrameIndex, streamMutex,
                 streamingMutex, callbacks, running, errLogged>>
  /\ UNCHANGED recvLocals

ReadErrorContinue ==
  /\ rpc \in {"readHeader", "readFrame"}
  /\ rpc' = "readHeader"
  /\ errLogged' = TRUE
  /\ UNCHANGED <<pipe, hdr, loopI, currentMetaFrameIndex, numMissingColorFrames,
                 numMissingDepthFrames, frames, streamMutex, streamingMutex,
                 callbacks, running>>
  /\ UNCHANGED recvLocals

\* lines 273-279: a read of the pipe throws; the error is logged and the
\* thread method returns
ReadError ==
  /\ rpc \in {"readHeader", "readFrame"}
  /\ rpc' = "terminated"
  /\ errLogged' = TRUE
  /\ UNCHANGED <<pipe, hdr, loopI, currentMetaFrameIndex, numMissingColorFrames,
                 numMissingDepthFrames, frames, streamMutex, streamingMutex,
                 callbacks, running>>
  /\ UNCHANGED recvLocals

\* the receive thread as long as the pipe delivers
Demultiplex ==
  \/ ReadHeader
  \/ DispatchLock
  \/ DispatchSkip
  \/ DispatchEnter
  \/ CallColor
  \/ ColorReturn
  \/ CallDepth
  \/ DepthReturn
  \/ DispatchEnd
  \/ ReadFrame

Receive ==
  \/ Demultiplex
  \/ ReadError

(* ---- the callers' threads: one per Stream ---- *)

userUnchanged == <<numStreams, pipe, srvSent, srvIdx, hdr, loopI,
                   currentMetaFrameIndex, numMissingColorFrames,
                   numMissingDepthFrames, frames, callbacks, running, errLogged, nonMuxVars>>

Installed(i) == {colorStreamingCallback[i], depthStreamingCallback[i]} \ {0}

\* Stream::startStreaming, lines 175-187
StartStreaming(i) ==
  /\ upc[i] = "idle"
  /\ nextCb < 2 * numStreams + 1 + 2 * MaxStarts
  /\ SpinlockFree(streamingMutex[i])
  /\ streaming' = [streaming EXCEPT ![i] = TRUE]
  /\ cbDeleted' = cbDeleted \cup Installed(i)
  /\ colorStreamingCallback' = [colorStreamingCallback EXCEPT ![i] = nextCb]
  /\ depthStreamingCallback' = [depthStreamingCallback EXCEPT ![i] = nextCb + 1]
  /\ nextCb' = nextCb + 2
  /\ stopReturned' = [stopReturned EXCEPT ![i] = FALSE]
  /\ UNCHANGED <<rpc, streams, numStreamsAlive, streamMutex, streamingMutex, upc,
                 lastOneOut, ownerDeleted>>
  /\ UNCHANGED userUnchanged

\* Stream::stopStreaming is called
StopCall(i) ==
  /\ upc[i] = "idle"
  /\ streaming[i]
  /\ upc' = [upc EXCEPT ![i] = "stopping"]
  /\ UNCHANGED <<rpc, streams, numStreamsAlive, streaming, colorStreamingCallback,
                 depthStreamingCallback, streamMutex, streamingMutex, lastOneOut,
                 ownerDeleted, cbDeleted, nextCb, stopReturned>>
  /\ UNCHANGED userUnchanged

StopStreamingAll(i) ==
  /\ upc[i] = "stopping"
  /\ SpinlockFree(streamingMutex[i])
  /\ streaming' = [j \in StreamIds(numStreams) |-> FALSE]
  /\ cbDeleted' = cbDeleted \cup Installed(i)
  /\ colorStreamingCallback' = [colorStreamingCallback EXCEPT ![i] = 0]
  /\ depthStreamingCallback' = [depthStreamingCallback EXCEPT ![i] = 0]
  /\ stopReturned' = [stopReturned EXCEPT ![i] = TRUE]
  /\ upc' = [upc EXCEPT ![i] = "idle"]
  /\ UNCHANGED <<rpc, streams, numStreamsAlive, streamMutex, streamingMutex,
                 lastOneOut, ownerDeleted, nextCb>>
  /\ UNCHANGED userUnchanged
\* Stream::stopStreaming, lines 189-199: the body under the spinlock, and
\* the return
StopStreaming(i) ==
  /\ upc[i] = "stopping"
  /\ SpinlockFree(streamingMutex[i])
  /\ streaming' = [streaming EXCEPT ![i] = FALSE]
  /\ cbDeleted' = cbDeleted \cup Installed(i)
  /\ colorStreamingCallback' = [colorStreamingCallback EXCEPT ![i] = 0]
  /\ depthStreamingCallback' = [depthStreamingCallback EXCEPT ![i] = 0]
  /\ stopReturned' = [stopReturned EXCEPT ![i] = TRUE]
  /\ upc' = [upc EXCEPT ![i] = "idle"]
  /\ UNCHANGED <<rpc, streams, numStreamsAlive, streamMutex, streamingMutex,
                 lastOneOut, ownerDeleted, nextCb>>
  /\ UNCHANGED userUnchanged

\* Stream::~Stream, lines 122-129: the callbacks are deleted under the
\* spinlock; the pointers are left as they are
DestroyCallbacks(i) ==
  /\ upc[i] = "idle"
  /\ SpinlockFree(streamingMutex[i])
  /\ streaming' = [streaming EXCEPT ![i] = FALSE]
  /\ cbDeleted' = cbDeleted \cup Installed(i)
  /\ stopReturned' = [stopReturned EXCEPT ![i] = TRUE]
  /\ upc' = [upc EXCEPT ![i] = "unregister"]
  /\ UNCHANGED <<rpc, streams, numStreamsAlive, colorStreamingCallback,
                 depthStreamingCallback, streamMutex, streamingMutex, lastOneOut,
                 ownerDeleted, nextCb>>
  /\ UNCHANGED userUnchanged

LastOneOutOrOneLeft(alive) == alive <= 1
\* lastOneOut=owner->numStreamsAlive==0
LastOneOut(alive) == alive = 0

\* Stream::~Stream, lines 135-141: under the owner's streamMutex
Unregister(i) ==
  /\ upc[i] = "unregister"
  /\ streamMutex = Free
  /\ streams' = [streams EXCEPT ![i] = FALSE]
  /\ numStreamsAlive' = numStreamsAlive - 1
  /\ lastOneOut' = [lastOneOut EXCEPT ![i] = LastOneOut(numStreamsAlive - 1)]
  /\ upc' = [upc EXCEPT ![i] = "lastCheck"]
  /\ UNCHANGED <<rpc, streaming, colorStreamingCallback, depthStreamingCallback,
                 streamMutex, streamingMutex, ownerDeleted, cbDeleted, nextCb,
                 stopReturned>>
  /\ UNCHANGED userUnchanged

\* Stream::~Stream, lines 144-145, and ~MultiplexedFrameSource, lines 367-398:
\* the last stream deletes the owner, which cancels the receive thread at a
\* read of the pipe and joins it
DestroyOwner(i) ==
  /\ upc[i] = "lastCheck"
  /\ IF lastOneOut[i]
       THEN /\ rpc \in {"readHeader", "readFrame", "terminated", "cancelled"}
            /\ rpc' = "cancelled"
            /\ ownerDeleted' = ownerDeleted + 1
       ELSE UNCHANGED <<rpc, ownerDeleted>>
  /\ upc' = [upc EXCEPT ![i] = "dead"]
  /\ UNCHANGED <<streams, numStreamsAlive, streaming, colorStreamingCallback,
                 depthStreamingCallback, streamMutex, streamingMutex, lastOneOut,
                 cbDeleted, nextCb, stopReturned>>
  /\ UNCHANGED userUnchanged

\* The server sends one more complete metaframe in ascending frame id order.
ServerSendInOrder ==
  /\ rpc \notin {"terminated", "cancelled"}
  /\ pipe = <<>>
  /\ Len(srvSent) < MaxMetaConc
  /\ pipe' = Headers(srvIdx, Ascending(numStreams))
  /\ srvSent' = Append(srvSent, [idx |-> srvIdx, ids |-> Ascending(numStreams)])
  /\ srvIdx' = srvIdx + 1
  /\ UNCHANGED srvUnchanged

User ==
  \E i \in StreamIds(numStreams) :
    \/ StartStreaming(i)
    \/ StopCall(i)
    \/ StopStreaming(i)
    \/ DestroyCallbacks(i)
    \/ Unregister(i)
    \/ DestroyOwner(i)

\* The state after the constructor (lines 282-365) for a server announcing
\* n streams, and after the callers' startStreaming calls that precede the
\* first frame: cfg[i] tells which callbacks stream i installed.
\* Everything but the multiplexed source, as constructed.
NonMuxInit ==
  /\ FrameBufferInit /\ BackgroundViewerInit /\ RawKinectViewerInit
  /\ TiePointToolInit
  /\ CameraInit
  /\ ConstructorReturned
  /\ RestInit

StartConfigs(n) ==
  {[i \in StreamIds(n) |-> "both"]} \cup
  {[i \in StreamIds(n) |-> IF i = k THEN c ELSE "both"] :
     k \in StreamIds(n), c \in {"none", "colorOnly"}}
MuxInit(n, cfg, firstIdx) ==
  /\ numStreams = n
  /\ pipe = <<>>
  /\ srvSent = <<>>
  /\ srvIdx = firstIdx
  /\ hdr = NoHdr
  /\ rpc = "readHeader"
  /\ loopI = 0
  /\ currentMetaFrameIndex = 0
  /\ numMissingColorFrames = n
  /\ numMissingDepthFrames = n
  /\ frames = [f \in FrameIds(n) |-> NoFrame]
  /\ streams = [i \in StreamIds(n) |-> TRUE]
  /\ numStreamsAlive = n
  /\ streaming = [i \in StreamIds(n) |-> cfg[i] # "none"]
  /\ colorStreamingCallback = [i \in StreamIds(n) |-> IF cfg[i] = "none" THEN 0 ELSE 2 * i + 1]
  /\ depthStreamingCallback = [i \in StreamIds(n) |-> IF cfg[i] = "both" THEN 2 * i + 2 ELSE 0]
  /\ streamMutex = Free
  /\ streamingMutex = [i \in StreamIds(n) |-> Free]
  /\ callbacks = <<>>
  /\ running = NoCall
  /\ upc = [i \in StreamIds(n) |-> "idle"]
  /\ lastOneOut = [i \in StreamIds(n) |-> FALSE]
  /\ ownerDeleted = 0
  /\ cbDeleted = {}
  /\ nextCb = 2 * n + 1
  /\ stopReturned = [i \in StreamIds(n) |-> FALSE]
  /\ errLogged = FALSE

Init ==
  \E n \in 1 .. MaxStreams, firstIdx \in {0, 1} :
    \E cfg \in StartConfigs(n) :
      /\ MuxInit(n, cfg, firstIdx)
      /\ NonMuxInit

Next ==
  \/ ServerSend
  \/ ServerRepeat
  \/ Receive

Spec == Init /\ [][Next]_vars

\* The receive thread running concurrently with the callers' threads.
\* Stream 0 has been started, the others have not been started yet.
InitConc ==
  \E n \in 1 .. MaxStreams :
    /\ MuxInit(n, [i \in StreamIds(n) |-> IF i = 0 THEN "both" ELSE "none"], 0)
    /\ NonMuxInit

NextConc ==
  \/ ServerSendInOrder
  \/ Demultiplex
  \/ User

SpecConc == InitConc /\ [][NextConc]_vars

(* ---- a server that announces a frame id outside the source's arrays ---- *)

\* a metaframe whose last header carries the frame id 2N
BeyondLast(n) == [k \in 1 .. 2 * n |-> IF k = 2 * n THEN 2 * n ELSE k - 1]

\* the server end of the pipe is not under the client's control: it sends
\* any of the metaframes above
ServerSendAnyId ==
  /\ rpc \notin {"terminated", "cancelled", "crashed"}
  /\ pipe = <<>>
  /\ Len(srvSent) < MaxMetaConc
  /\ \E s \in Scripts(numStreams) \cup {BeyondLast(numStreams)} :
       /\ pipe' = Headers(srvIdx, s)
       /\ srvSent' = Append(srvSent, [idx |-> srvIdx, ids |-> s])
  /\ srvIdx' = srvIdx + 1
  /\ UNCHANGED srvUnchanged

\* lines 254-270 for a frameId past the arrays: colorFrameReaders[streamIndex]
\* or depthFrameReaders[streamIndex] is read past its end and called through,
\* and frames[frameId] is assigned past the end of frames.  The thread either
\* crashes or goes on with the counter decremented and memory outside frames
\* overwritten.
ReadFrameOutOfBounds ==
  /\ rpc = "readFrame"
  /\ hdr.id \notin FrameIds(numStreams)
  /\ \/ /\ rpc' = "crashed"
        /\ UNCHANGED <<numMissingColorFrames, numMissingDepthFrames>>
     \/ /\ rpc' = "readHeader"
        /\ IF IsDepth(hdr.id)
             THEN /\ numMissingDepthFrames' = Decrement(numMissingDepthFrames)
                  /\ UNCHANGED numMissingColorFrames
             ELSE /\ numMissingColorFrames' = Decrement(numMissingColorFrames)
                  /\ UNCHANGED numMissingDepthFrames
  /\ UNCHANGED <<pipe, hdr, loopI, currentMetaFrameIndex, frames, streamMutex,
                 streamingMutex, callbacks, running, errLogged>>
  /\ UNCHANGED recvLocals

NextFrameId ==
  \/ ServerSendAnyId
  \/ Receive
  \/ ReadFrameOutOfBounds

SpecFrameId == Init /\ [][NextFrameId]_vars

\* C32: the receive thread never indexes the frame array or the frame-reader
\* arrays with a frame id of 2N or more: it never stands before the frame
\* read of lines 254-270 with such an id, and so never runs that read out of
\* bounds.
C32_FrameIdWithinArrays ==
  /\ rpc = "readFrame" => hdr.id \in FrameIds(numStreams)
  /\ rpc # "crashed"

(***************************************************************************)
(* FrameBuffer: handles sharing reference-counted payloads.  Each handle   *)
(* is operated on by the thread that owns it.                              *)
(***************************************************************************)

\* Atomic counter operations; the counter is kept as the representative of
\* its value modulo 2^32 nearest to zero.
preAdd(rc) == rc + 1
preSub(rc) == rc - 1

\* BufferHeader::ref: refCount.preAdd(1)
ref(rc) == preAdd(rc)

unrefPostSub(rc) == rc = 0
\* BufferHeader::unref: return refCount.preSub(1)==0, from the counter's value
\* before the call
unref(rc) == preSub(rc) = 0

\* Handle objects are interchangeable: a new one takes the first unused place.
Unused(h) == ~hLive[h] /\ \A g \in Handles : g < h => hLive[g]

\* FrameBuffer(void), lines 97-100
Construct(t, h) ==
  /\ tOp[t] = "idle"
  /\ Unused(h)
  /\ hLive' = [hLive EXCEPT ![h] = TRUE]
  /\ hOwner' = [hOwner EXCEPT ![h] = t]
  /\ hBuffer' = [hBuffer EXCEPT ![h] = 0]
  /\ UNCHANGED <<refCount, freed, nextBuffer, tOp, tHandle, tSource, tOrphan>>
  /\ UNCHANGED nonFbVars

\* FrameBuffer(const Size&,size_t), lines 101-110, with BufferHeader(), 55-61
Allocate(t, h) ==
  /\ tOp[t] = "idle"
  /\ Unused(h)
  /\ nextBuffer <= MaxBuffers
  /\ refCount' = [refCount EXCEPT ![nextBuffer] = 1]
  /\ nextBuffer' = nextBuffer + 1
  /\ hLive' = [hLive EXCEPT ![h] = TRUE]
  /\ hOwner' = [hOwner EXCEPT ![h] = t]
  /\ hBuffer' = [hBuffer EXCEPT ![h] = nextBuffer]
  /\ UNCHANGED <<freed, tOp, tHandle, tSource, tOrphan>>
  /\ UNCHANGED nonFbVars

\* FrameBuffer(const FrameBuffer&), lines 111-117
CopyConstruct(t, h, src) ==
  /\ tOp[t] = "idle"
  /\ Unused(h)
  /\ hLive[src] /\ hOwner[src] = t
  /\ hLive' = [hLive EXCEPT ![h] = TRUE]
  /\ hOwner' = [hOwner EXCEPT ![h] = t]
  /\ hBuffer' = [hBuffer EXCEPT ![h] = hBuffer[src]]
  /\ IF hBuffer[src] # 0
       THEN refCount' = [refCount EXCEPT ![hBuffer[src]] = ref(@)]
       ELSE UNCHANGED refCount
  /\ UNCHANGED <<freed, nextBuffer, tOp, tHandle, tSource, tOrphan>>
  /\ UNCHANGED nonFbVars

\* The call of unref() in lines 127-129, 153-155 and 193-195: decrements the
\* counter of the handle's payload; when the payload becomes orphaned the
\* thread goes on to delete it, otherwise to `then`.
Release(t, h, then) ==
  LET b == hBuffer[h] IN
  /\ refCount' = [refCount EXCEPT ![b] = preSub(@)]
  /\ IF unref(refCount[b])
       THEN /\ tOp' = [tOp EXCEPT ![t] = then \o "Free"]
            /\ tOrphan' = [tOrphan EXCEPT ![t] = b]
       ELSE /\ tOp' = [tOp EXCEPT ![t] = then]
            /\ UNCHANGED tOrphan

\* operator=, lines 118-136: the test and the release of the current buffer
AssignBegin(t, h, src) ==
  /\ tOp[t] = "idle"
  /\ hLive[h] /\ hOwner[h] = t
  /\ hLive[src] /\ hOwner[src] = t
  /\ hBuffer[h] # hBuffer[src]
  /\ tHandle' = [tHandle EXCEPT ![t] = h]
  /\ tSource' = [tSource EXCEPT ![t] = src]
  /\ IF hBuffer[h] # 0
       THEN Release(t, h, "assign")
       ELSE /\ tOp' = [tOp EXCEPT ![t] = "assign"]
            /\ UNCHANGED <<refCount, tOrphan>>
  /\ UNCHANGED <<freed, nextBuffer, hLive, hOwner, hBuffer>>
  /\ UNCHANGED nonFbVars

\* lines 131-133, 157-159, 197-199: ~BufferHeader() and delete[]
DeleteOrphan(t) ==
  /\ tOp[t] \in {"assignFree", "invalidateFree", "destroyFree"}
  /\ freed' = [freed EXCEPT ![tOrphan[t]] = @ + 1]
  /\ tOrphan' = [tOrphan EXCEPT ![t] = 0]
  /\ tOp' = [tOp EXCEPT ![t] = CASE tOp[t] = "assignFree" -> "assign"
                                  [] tOp[t] = "invalidateFree" -> "invalidate"
                                  [] OTHER -> "idle"]
  /\ UNCHANGED <<refCount, nextBuffer, hLive, hOwner, hBuffer, tHandle, tSource>>
  /\ UNCHANGED nonFbVars

\* operator=, lines 137-146: take over and reference the source's buffer
AssignEnd(t) ==
  /\ tOp[t] = "assign"
  /\ hBuffer' = [hBuffer EXCEPT ![tHandle[t]] = hBuffer[tSource[t]]]
  /\ IF hBuffer[tSource[t]] # 0
       THEN refCount' = [refCount EXCEPT ![hBuffer[tSource[t]]] = ref(@)]
       ELSE UNCHANGED refCount
  /\ tOp' = [tOp EXCEPT ![t] = "idle"]
  /\ tHandle' = [tHandle EXCEPT ![t] = 0]
  /\ tSource' = [tSource EXCEPT ![t] = 0]
  /\ UNCHANGED <<freed, nextBuffer, hLive, hOwner, tOrphan>>
  /\ UNCHANGED nonFbVars

\* invalidate, lines 187-195: release the current buffer
InvalidateBegin(t, h) ==
  /\ tOp[t] = "idle"
  /\ hLive[h] /\ hOwner[h] = t
  /\ hBuffer[h] # 0
  /\ tHandle' = [tHandle EXCEPT ![t] = h]
  /\ Release(t, h, "invalidate")
  /\ UNCHANGED <<freed, nextBuffer, hLive, hOwner, hBuffer, tSource>>
  /\ UNCHANGED nonFbVars

\* invalidate, lines 202-203: buffer=0
InvalidateEnd(t) ==
  /\ tOp[t] = "invalidate"
  /\ hBuffer' = [hBuffer EXCEPT ![tHandle[t]] = 0]
  /\ tOp' = [tOp EXCEPT ![t] = "idle"]
  /\ tHandle' = [tHandle EXCEPT ![t] = 0]
  /\ UNCHANGED <<refCount, freed, nextBuffer, hLive, hOwner, tSource, tOrphan>>
  /\ UNCHANGED nonFbVars

\* ~FrameBuffer, lines 150-162
Destroy(t, h) ==
  /\ tOp[t] = "idle"
  /\ hLive[h] /\ hOwner[h] = t
  /\ hLive' = [hLive EXCEPT ![h] = FALSE]
  /\ hOwner' = [hOwner EXCEPT ![h] = "producer"]
  /\ hBuffer' = [hBuffer EXCEPT ![h] = 0]
  /\ IF hBuffer[h] # 0
       THEN Release(t, h, "destroy")
       ELSE UNCHANGED <<refCount, tOp, tOrphan>>
  /\ UNCHANGED <<freed, nextBuffer, tHandle, tSource>>
  /\ UNCHANGED nonFbVars

\* the destructor returns without having orphaned the payload
DestroyEnd(t) ==
  /\ tOp[t] = "destroy"
  /\ tOp' = [tOp EXCEPT ![t] = "idle"]
  /\ UNCHANGED <<refCount, freed, nextBuffer, hLive, hOwner, hBuffer, tHandle,
                 tSource, tOrphan>>
  /\ UNCHANGED nonFbVars

\* A handle at rest passes to the other thread through a synchronised
\* hand-over (a callback argument, a slot of a triple buffer).
HandOver(h, t) ==
  /\ hLive[h]
  /\ hOwner[h] # t
  /\ tOp[hOwner[h]] = "idle"
  /\ hOwner' = [hOwner EXCEPT ![h] = t]
  /\ UNCHANGED <<refCount, freed, nextBuffer, hLive, hBuffer, tOp, tHandle,
                 tSource, tOrphan>>
  /\ UNCHANGED nonFbVars

FrameBufferNext ==
  \/ \E t \in Threads, h \in Handles : Construct(t, h)
  \/ \E t \in Threads, h \in Handles : Allocate(t, h)
  \/ \E t \in Threads, h, src \in Handles : CopyConstruct(t, h, src)
  \/ \E t \in Threads, h, src \in Handles : AssignBegin(t, h, src)
  \/ \E t \in Threads : DeleteOrphan(t)
  \/ \E t \in Threads : AssignEnd(t)
  \/ \E t \in Threads, h \in Handles : InvalidateBegin(t, h)
  \/ \E t \in Threads : InvalidateEnd(t)
  \/ \E t \in Threads, h \in Handles : Destroy(t, h)
  \/ \E t \in Threads : DestroyEnd(t)
  \/ \E t \in Threads, h \in Handles : HandOver(h, t)

\* The multiplexed source constructed and idle.
MuxIdle == MuxInit(1, [i \in StreamIds(1) |-> "none"], 0)

InitFB == MuxIdle /\ NonMuxInit

SpecFB == InitFB /\ [][FrameBufferNext]_vars

(***************************************************************************)
(* BackgroundViewer: the main thread and the background editing thread.    *)
(***************************************************************************)

\* editRequestCond.signal(): wakes the editing thread if it is waiting
signal(pc) == IF pc = "wait" THEN "woken" ELSE pc

\* constructor: the background frame is filled from the file
LoadBackground ==
  /\ bgPc = "load"
  /\ \E file \in [Pixels -> DepthValues] : background' = file
  /\ bgPc' = "process"
  /\ UNCHANGED <<backgroundPublished, backgroundMesh, savedFile,
                 active, editRequest, shutdownEditingThread, editPc, haveEdit,
                 edited, editX>>
  /\ UNCHANGED nonBgVars

\* constructor: the projector processes the background frame and receives
\* it together with the mesh; the editing thread is started
ProcessBackground ==
  /\ bgPc = "process"
  /\ backgroundMesh' = background
  /\ backgroundPublished' = TRUE
  /\ shutdownEditingThread' = FALSE
  /\ editPc' = "wait"
  /\ bgPc' = "running"
  /\ UNCHANGED <<background, savedFile, active, editRequest,
                 haveEdit, edited, editX>>
  /\ UNCHANGED nonBgVars

\* PaintTool::buttonCallback
ButtonCallback ==
  /\ bgPc = "running"
  /\ active' = ~active
  /\ UNCHANGED <<bgPc, background, backgroundPublished,
                 backgroundMesh, savedFile, editRequest, shutdownEditingThread,
                 editPc, haveEdit, edited, editX>>
  /\ UNCHANGED nonBgVars

\* PaintTool::frame: posts the tool's effect volume and signals, both under
\* the lock of editRequestCond
PaintFrame ==
  /\ bgPc = "running"
  /\ active
  /\ \E sphere \in Spheres :
       editRequest' = postNewValue(startNewValue(editRequest, sphere))
  /\ editPc' = signal(editPc)
  /\ UNCHANGED <<bgPc, background, backgroundPublished,
                 backgroundMesh, savedFile, active, shutdownEditingThread,
                 haveEdit, edited, editX>>
  /\ UNCHANGED nonBgVars

\* editingThreadMethod: returns from wait() and locks the newest request
EditLock ==
  /\ editPc = "woken"
  /\ haveEdit' = editRequest.fresh
  /\ editRequest' = lockNewValue(editRequest)
  /\ editPc' = "check"
  /\ UNCHANGED <<bgPc, background, backgroundPublished,
                 backgroundMesh, savedFile, active, shutdownEditingThread,
                 edited, editX>>
  /\ UNCHANGED nonBgVars

\* editingThreadMethod: quits, goes back to sleep or starts on the request
EditCheck ==
  /\ editPc = "check"
  /\ IF shutdownEditingThread
       THEN editPc' = "done" /\ haveEdit' = FALSE /\ UNCHANGED <<edited, editX>>
       ELSE IF ~haveEdit
         THEN editPc' = "wait" /\ UNCHANGED <<haveEdit, edited, editX>>
         ELSE editPc' = "edit" /\ edited' = FALSE /\ editX' = 1
              /\ UNCHANGED haveEdit
  /\ UNCHANGED <<bgPc, background, backgroundPublished,
                 backgroundMesh, savedFile, active, editRequest,
                 shutdownEditingThread>>
  /\ UNCHANGED nonBgVars

\* the write *bPtr=... to the pixel at x of the background frame
WritePixel(frame, x, depth) == [frame EXCEPT ![x] = depth]

\* editingThreadMethod: one pass of the loop over the pixels
EditPixel ==
  /\ editPc = "edit"
  /\ editX <= MaxPixels
  /\ IF editX \in getLockedValue(editRequest)
       THEN /\ \E newDepth \in DepthValues :
                 background' = WritePixel(background, editX, newDepth)
            /\ edited' = TRUE
       ELSE UNCHANGED <<background, edited>>
  /\ editX' = editX + 1
  /\ UNCHANGED <<bgPc, backgroundPublished, backgroundMesh,
                 savedFile, active, editRequest, shutdownEditingThread, editPc,
                 haveEdit>>
  /\ UNCHANGED nonBgVars

\* editingThreadMethod: after the loop, the projector gets the edited frame
EditUpdate ==
  /\ editPc = "edit"
  /\ editX > MaxPixels
  /\ IF edited
       THEN backgroundMesh' = background /\ backgroundPublished' = TRUE
       ELSE UNCHANGED <<backgroundMesh, backgroundPublished>>
  /\ editPc' = "wait"
  /\ haveEdit' = FALSE /\ edited' = FALSE /\ editX' = 0
  /\ UNCHANGED <<bgPc, background, savedFile, active,
                 editRequest, shutdownEditingThread>>
  /\ UNCHANGED nonBgVars

\* destructor: asks the editing thread to shut down
Shutdown ==
  /\ bgPc = "running"
  /\ shutdownEditingThread' = TRUE
  /\ editPc' = signal(editPc)
  /\ bgPc' = "join"
  /\ UNCHANGED <<background, backgroundPublished,
                 backgroundMesh, savedFile, active, editRequest, haveEdit,
                 edited, editX>>
  /\ UNCHANGED nonBgVars

\* destructor: joins the editing thread and saves the background frame
JoinAndSave ==
  /\ bgPc = "join"
  /\ editPc = "done"
  /\ savedFile' = background
  /\ bgPc' = "saved"
  /\ UNCHANGED <<background, backgroundPublished,
                 backgroundMesh, active, editRequest, shutdownEditingThread,
                 editPc, haveEdit, edited, editX>>
  /\ UNCHANGED nonBgVars

EditingThread == EditLock \/ EditCheck \/ EditPixel \/ EditUpdate

BackgroundViewerNext ==
  \/ LoadBackground
  \/ ProcessBackground
  \/ ButtonCallback
  \/ PaintFrame
  \/ EditingThread
  \/ Shutdown
  \/ JoinAndSave

InitBackground ==
  MuxIdle /\ NonMuxInit

SpecBackground == InitBackground /\ [][BackgroundViewerNext]_vars

\* The editing thread is a thread of its own and takes its next step
\* whenever it has one; join() returns once the thread has ended.  The
\* tools and the destructor act when the user makes them.
SpecBackgroundLive ==
  /\ InitBackground
  /\ [][BackgroundViewerNext]_vars
  /\ WF_vars(EditingThread)
  /\ WF_vars(JoinAndSave)

\* C33: the destructor terminates: once it has set shutdownEditingThread,
\* signalled and gone on to join(), the editing thread ends and join()
\* returns, whatever the editing thread was doing at the signal.
C33_DestructorTerminates == (bgPc = "join") ~> (bgPc = "saved")

\* C34: a posted edit request that the editing thread has not locked yet is
\* eventually locked for processing (itself, or the later request that
\* replaced it), unless the viewer shuts down.
C34_EditRequestProcessed ==
  editRequest.fresh ~> (~editRequest.fresh \/ shutdownEditingThread)

(***************************************************************************)
(* RawKinectViewer: the camera's streaming thread posts depth frames into  *)
(* a triple buffer that the main thread locks once per Vrui frame.         *)
(***************************************************************************)

\* PauseTool (a friend class) toggles the flag
PauseTool ==
  /\ paused' = ~paused
  /\ UNCHANGED <<colorFrames, colorFrameVersion, depthFrames, depthFrameVersion,
                 updateRequested, cameraPc, nextFrame, depthPosts,
                 lastPostedDepth, overwrittenDepth, seenDepth, lastLock>>
  /\ UNCHANGED <<observerVars, nonViewerVars>>

\* depthStreamingCallback: the test of paused and, if not paused, the first
\* half of postNewValue, the copy of the frame into the write slot
DepthStreamingCallback ==
  /\ cameraPc = "idle"
  /\ nextFrame <= MaxFrames
  /\ IF ~paused
       THEN /\ depthFrames' = startNewValue(depthFrames, nextFrame)
            /\ cameraPc' = "posting"
       ELSE UNCHANGED <<depthFrames, cameraPc>>
  /\ nextFrame' = nextFrame + 1
  /\ UNCHANGED <<paused, colorFrames, colorFrameVersion, depthFrameVersion,
                 updateRequested, depthPosts, lastPostedDepth,
                 overwrittenDepth, seenDepth, lastLock>>
  /\ UNCHANGED <<observerVars, nonViewerVars>>

\* depthStreamingCallback: the second half of postNewValue, after which the
\* thread goes on to call the observers
DepthPosted ==
  /\ cameraPc = "posting"
  /\ depthFrames' = postNewValue(depthFrames)
  /\ cameraPc' = "observers"
  /\ observerPc' = [observerPc EXCEPT !["depth"] = "lock"]
  /\ depthPosts' = depthPosts + 1
  /\ lastPostedDepth' = depthFrames.slot[depthFrames.write]
  /\ overwrittenDepth' = IF depthPosts >= 1
                           THEN overwrittenDepth \cup {lastPostedDepth}
                           ELSE overwrittenDepth
  /\ UNCHANGED <<paused, colorFrames, colorFrameVersion, depthFrameVersion,
                 updateRequested, nextFrame, seenDepth, lastLock,
                 frameCallbacksMutex, colorFrameCallbacks, depthFrameCallbacks,
                 colorPc, cbIt, observerRunning>>
  /\ UNCHANGED nonViewerVars

\* the observers a tool of the viewer may register
Observers == {1, 2}
StreamingThreads == {"color", "depth"}

\* the list the streaming callback of thread t goes through
FrameCallbacks(t) == IF t = "color" THEN colorFrameCallbacks ELSE depthFrameCallbacks

CanLockAlways == TRUE
\* Threads::Spinlock::Lock frameCallbacksLock(frameCallbacksMutex): the caller
\* gets past this line only while nobody holds the spinlock
CanLock == frameCallbacksMutex = "free"

\* what the observer lists' operations leave alone
viewerButObservers == <<paused, colorFrames, colorFrameVersion, depthFrames,
                        depthFrameVersion, updateRequested, cameraPc, nextFrame,
                        depthPosts, lastPostedDepth, overwrittenDepth, seenDepth,
                        lastLock, colorPc, observerPc, cbIt, observerRunning>>

\* *cbIt=callbacks.back(); callbacks.pop_back() at the first entry equal to
\* callback, lines 269-275 and 289-295
RemoveCallback(list, callback) ==
  IF \E k \in 1 .. Len(list) : list[k] = callback
    THEN LET k == CHOOSE j \in 1 .. Len(list) :
                    list[j] = callback /\ \A h \in 1 .. (j - 1) : list[h] # callback
         IN  SubSeq([list EXCEPT ![k] = list[Len(list)]], 1, Len(list) - 1)
    ELSE list

\* history: the observer that an unregister call took off the list t
Removed(t, callback) ==
  IF \E k \in 1 .. Len(FrameCallbacks(t)) : FrameCallbacks(t)[k] = callback
    THEN {<<t, callback>>}
    ELSE {}

\* registerColorCallback, lines 258-262, called in the main thread
registerColorCallback(newCallback) ==
  /\ CanLock
  /\ \A k \in 1 .. Len(colorFrameCallbacks) : colorFrameCallbacks[k] # newCallback
  /\ colorFrameCallbacks' = Append(colorFrameCallbacks, newCallback)
  /\ unregistered' = unregistered \ {<<"color", newCallback>>}
  /\ UNCHANGED <<frameCallbacksMutex, depthFrameCallbacks, viewerButObservers,
                 nonViewerNorUr>>

\* unregisterColorCallback, lines 264-276
unregisterColorCallback(callback) ==
  /\ CanLock
  /\ colorFrameCallbacks' = RemoveCallback(colorFrameCallbacks, callback)
  /\ unregistered' = unregistered \cup Removed("color", callback)
  /\ UNCHANGED <<frameCallbacksMutex, depthFrameCallbacks, viewerButObservers,
                 nonViewerNorUr>>

\* registerDepthCallback, lines 278-282
registerDepthCallback(newCallback) ==
  /\ CanLock
  /\ \A k \in 1 .. Len(depthFrameCallbacks) : depthFrameCallbacks[k] # newCallback
  /\ depthFrameCallbacks' = Append(depthFrameCallbacks, newCallback)
  /\ unregistered' = unregistered \ {<<"depth", newCallback>>}
  /\ UNCHANGED <<frameCallbacksMutex, colorFrameCallbacks, viewerButObservers,
                 nonViewerNorUr>>

\* unregisterDepthCallback, lines 284-296
unregisterDepthCallback(callback) ==
  /\ CanLock
  /\ depthFrameCallbacks' = RemoveCallback(depthFrameCallbacks, callback)
  /\ unregistered' = unregistered \cup Removed("depth", callback)
  /\ UNCHANGED <<frameCallbacksMutex, colorFrameCallbacks, viewerButObservers,
                 nonViewerNorUr>>

\* colorStreamingCallback, lines 300-394: the test of paused and, if not
\* paused, the post of the frame into the color triple buffer
ColorStreamingCallback ==
  /\ colorPc = "idle"
  /\ nextFrame <= MaxFrames
  /\ IF ~paused
       THEN /\ colorFrames' = postNewValue(startNewValue(colorFrames, nextFrame))
            /\ colorPc' = "observers"
            /\ observerPc' = [observerPc EXCEPT !["color"] = "lock"]
       ELSE UNCHANGED <<colorFrames, colorPc, observerPc>>
  /\ nextFrame' = nextFrame + 1
  /\ UNCHANGED <<paused, colorFrameVersion, depthFrames, depthFrameVersion,
                 updateRequested, cameraPc, depthPosts, lastPostedDepth,
                 overwrittenDepth, seenDepth, lastLock, frameCallbacksMutex,
                 colorFrameCallbacks, depthFrameCallbacks, cbIt, observerRunning>>
  /\ UNCHANGED nonViewerVars

\* what the dispatch to the observers leaves alone
dispatchUnchanged == <<paused, colorFrames, colorFrameVersion, depthFrames,
                       depthFrameVersion, nextFrame, depthPosts, lastPostedDepth,
                       overwrittenDepth, seenDepth, lastLock,
                       colorFrameCallbacks, depthFrameCallbacks, nonViewerVars>>

\* lines 398 and 417: Threads::Spinlock::Lock frameCallbacksLock, and
\* cbIt=callbacks.begin()
LockFrameCallbacks(t) ==
  /\ observerPc[t] = "lock"
  /\ CanLock
  /\ frameCallbacksMutex' = t
  /\ cbIt' = [cbIt EXCEPT ![t] = 1]
  /\ observerPc' = [observerPc EXCEPT ![t] = "dispatch"]
  /\ UNCHANGED <<updateRequested, cameraPc, colorPc, observerRunning>>
  /\ UNCHANGED dispatchUnchanged

\* lines 399-400 and 418-419: (**cbIt)(frameBuffer) is entered
CallObserver(t) ==
  /\ observerPc[t] = "dispatch"
  /\ cbIt[t] <= Len(FrameCallbacks(t))
  /\ observerRunning' = [observerRunning EXCEPT ![t] = FrameCallbacks(t)[cbIt[t]]]
  /\ observerPc' = [observerPc EXCEPT ![t] = "inCallback"]
  /\ UNCHANGED <<frameCallbacksMutex, cbIt, updateRequested, cameraPc, colorPc>>
  /\ UNCHANGED dispatchUnchanged

\* the observer returns; ++cbIt
ObserverReturns(t) ==
  /\ observerPc[t] = "inCallback"
  /\ observerRunning' = [observerRunning EXCEPT ![t] = 0]
  /\ cbIt' = [cbIt EXCEPT ![t] = @ + 1]
  /\ observerPc' = [observerPc EXCEPT ![t] = "dispatch"]
  /\ UNCHANGED <<frameCallbacksMutex, updateRequested, cameraPc, colorPc>>
  /\ UNCHANGED dispatchUnchanged

\* lines 401-404 and 420-423: cbIt reached end(); the scope of the lock
\* ends, Vrui::requestUpdate() is called and the streaming callback returns
UnlockFrameCallbacks(t) ==
  /\ observerPc[t] = "dispatch"
  /\ cbIt[t] > Len(FrameCallbacks(t))
  /\ frameCallbacksMutex' = "free"
  /\ updateRequested' = TRUE
  /\ observerPc' = [observerPc EXCEPT ![t] = "none"]
  /\ cbIt' = [cbIt EXCEPT ![t] = 1]
  /\ IF t = "color" THEN colorPc' = "idle" /\ UNCHANGED cameraPc
                    ELSE cameraPc' = "idle" /\ UNCHANGED colorPc
  /\ UNCHANGED observerRunning
  /\ UNCHANGED dispatchUnchanged

\* what frame() does with the triple buffers: which of the two versions it
\* increments, given what the two calls of lockNewValue returned
FrameAlways(colorLocked, depthLocked) ==
  /\ colorFrames' = lockNewValue(colorFrames)
  /\ colorFrameVersion' = colorFrameVersion + 1
  /\ depthFrames' = lockNewValue(depthFrames)
  /\ depthFrameVersion' = depthFrameVersion + 1

Frame(colorLocked, depthLocked) ==
  /\ colorFrames' = lockNewValue(colorFrames)
  /\ colorFrameVersion' = IF colorLocked THEN colorFrameVersion + 1
                                         ELSE colorFrameVersion
  /\ depthFrames' = lockNewValue(depthFrames)
  /\ depthFrameVersion' = IF depthLocked THEN depthFrameVersion + 1
                                         ELSE depthFrameVersion

\* RawKinectViewer::frame, called by Vrui in the main thread
FrameCall ==
  /\ Frame(colorFrames.fresh, depthFrames.fresh)
  /\ updateRequested' = FALSE
  /\ lastLock' = [called |-> TRUE,
                  result |-> depthFrameVersion' # depthFrameVersion,
                  pending |-> depthPosts,
                  before |-> getLockedValue(depthFrames),
                  after |-> getLockedValue(depthFrames'),
                  posted |-> lastPostedDepth]
  /\ depthPosts' = IF depthFrames.fresh THEN 0 ELSE depthPosts
  /\ seenDepth' = IF depthFrames.fresh
                    THEN seenDepth \cup {getLockedValue(depthFrames')}
                    ELSE seenDepth
  /\ UNCHANGED <<paused, cameraPc, nextFrame, lastPostedDepth, overwrittenDepth>>
  /\ UNCHANGED <<observerVars, nonViewerVars>>

\* the depth stream and the main thread of a viewer without tools
RawKinectViewerNext ==
  \/ PauseTool
  \/ DepthStreamingCallback
  \/ DepthPosted
  \/ \E t \in StreamingThreads : LockFrameCallbacks(t)
  \/ \E t \in StreamingThreads : UnlockFrameCallbacks(t)
  \/ FrameCall

InitViewer ==
  MuxIdle /\ NonMuxInit

SpecViewer == InitViewer /\ [][RawKinectViewerNext]_vars

\* both streams, and tools that register and unregister their observers
ObserverNext ==
  \/ RawKinectViewerNext
  \/ ColorStreamingCallback
  \/ \E t \in StreamingThreads : CallObserver(t)
  \/ \E t \in StreamingThreads : ObserverReturns(t)
  \/ \E cb \in Observers : registerColorCallback(cb)
  \/ \E cb \in Observers : unregisterColorCallback(cb)
  \/ \E cb \in Observers : registerDepthCallback(cb)
  \/ \E cb \in Observers : unregisterDepthCallback(cb)

SpecObservers == InitViewer /\ [][ObserverNext]_vars

\* the two streaming threads and the tools' register and unregister calls,
\* in a viewer that is not paused
UnregisterNext ==
  \/ ColorStreamingCallback
  \/ DepthStreamingCallback
  \/ DepthPosted
  \/ \E t \in StreamingThreads : LockFrameCallbacks(t)
  \/ \E t \in StreamingThreads : CallObserver(t)
  \/ \E t \in StreamingThreads : ObserverReturns(t)
  \/ \E t \in StreamingThreads : UnlockFrameCallbacks(t)
  \/ \E cb \in Observers : registerColorCallback(cb)
  \/ \E cb \in Observers : unregisterColorCallback(cb)
  \/ \E cb \in Observers : registerDepthCallback(cb)
  \/ \E cb \in Observers : unregisterDepthCallback(cb)

SpecUnregister == InitViewer /\ [][UnregisterNext]_vars

\* the other observers of a list stay on it through an unregister call
OthersStayRegistered(list, callback) ==
  /\ Range(list') = Range(list) \ {callback}
  /\ Len(list') = Cardinality(Range(list'))

Invoked(h) == [h EXCEPT !.state = "invoked", !.count = h.count + 1]

CaptureUnderwayNever(counter) == FALSE
\* if(averageFrameCounter==0), line 442, negated: a capture is underway
CaptureUnderway(counter) == counter # 0

\* requestAverageFrame(callback), lines 427-463; callback 0 is the null
\* pointer
RequestAverageFrame(callback) ==
  IF averageFrameValid
    THEN /\ averageCallback' =
              IF callback # 0
                THEN [averageCallback EXCEPT ![callback] = Invoked(@)]
                ELSE averageCallback
         /\ UNCHANGED <<averageFrameCounter, averageFrameReadyCallbacks>>
    ELSE /\ averageFrameCounter' =
              IF CaptureUnderway(averageFrameCounter)
                THEN averageFrameCounter ELSE averageNumFrames
         /\ averageFrameReadyCallbacks' =
              IF callback # 0
                THEN Append(averageFrameReadyCallbacks, callback)
                ELSE averageFrameReadyCallbacks
         /\ averageCallback' =
              IF callback # 0
                THEN [averageCallback EXCEPT
                        ![callback] = [@ EXCEPT !.state = "pending",
                                                !.started = averageFrameCounter = 0]]
                ELSE averageCallback

\* a tool calls requestAverageFrame with a callback it has just created
\* (DepthCorrectionTool.cpp line 170)
requestAverageFrame ==
  /\ nextAverageCallback <= MaxRequests
  /\ RequestAverageFrame(nextAverageCallback)
  /\ nextAverageCallback' = nextAverageCallback + 1
  /\ UNCHANGED <<averageFrameValid, showAverageFrame>>
  /\ UNCHANGED nonAvVars

\* averageFramesCallback, lines 592-607: the menu's toggle button
averageFramesCallback(set) ==
  /\ showAverageFrame' = set
  /\ IF set
       THEN /\ RequestAverageFrame(0)
            /\ UNCHANGED averageFrameValid
       ELSE /\ averageFrameValid' = FALSE
            /\ UNCHANGED <<averageFrameCounter, averageFrameReadyCallbacks,
                           averageCallback>>
  /\ UNCHANGED nextAverageCallback
  /\ UNCHANGED nonAvVars

\* frame(), lines 1042-1075, in a Vrui frame in which lockNewValue() locked
\* a new depth frame: the frame is accumulated, and with the last frame of
\* the capture the callbacks are called and deleted and the list cleared
AccumulateDepthFrame ==
  /\ IF averageFrameCounter > 0
       THEN /\ averageFrameCounter' = averageFrameCounter - 1
            /\ IF averageFrameCounter - 1 = 0
                 THEN /\ averageFrameValid' = showAverageFrame
                      /\ averageCallback' =
                           [cb \in AverageCallbacks |->
                              LET n == Cardinality({k \in DOMAIN averageFrameReadyCallbacks :
                                                      averageFrameReadyCallbacks[k] = cb})
                                  h == averageCallback[cb]
                              IN IF n > 0
                                   THEN [h EXCEPT !.state = "invoked",
                                                  !.count = h.count + n,
                                                  !.waited = h.waited + 1]
                                   ELSE h]
                      /\ averageFrameReadyCallbacks' = <<>>
                 ELSE /\ averageCallback' =
                           [cb \in AverageCallbacks |->
                              IF averageCallback[cb].state = "pending"
                                THEN [averageCallback[cb] EXCEPT !.waited = @ + 1]
                                ELSE averageCallback[cb]]
                      /\ UNCHANGED <<averageFrameValid, averageFrameReadyCallbacks>>
       ELSE UNCHANGED <<averageFrameCounter, averageFrameValid,
                        averageFrameReadyCallbacks, averageCallback>>
  /\ UNCHANGED <<showAverageFrame, nextAverageCallback>>
  /\ UNCHANGED nonAvVars

AverageFrameNext ==
  \/ requestAverageFrame
  \/ \E set \in BOOLEAN : averageFramesCallback(set)
  \/ AccumulateDepthFrame

\* The camera keeps streaming and the viewer is not paused: Vrui frames in
\* which a new depth frame is locked keep coming.
SpecAverageFrame ==
  InitViewer /\ [][AverageFrameNext]_vars /\ WF_vars(AccumulateDepthFrame)

\* C39: every callback passed to requestAverageFrame is called exactly once
\* and deleted with the call: at once if the average frame is valid, and
\* otherwise with the last frame of the capture, which takes
\* averageNumFrames newly locked depth frames from the request that started
\* it whatever is requested meanwhile; no callback is left on the list when
\* no capture is underway.
C39_AverageCallbackOnce ==
  /\ [](/\ \A cb \in AverageCallbacks :
             LET h == averageCallback[cb]
             IN /\ h.count = (IF h.state = "invoked" THEN 1 ELSE 0)
                /\ h.state = "unused" <=> cb >= nextAverageCallback
                /\ h.state = "pending" <=>
                     \E k \in DOMAIN averageFrameReadyCallbacks :
                       averageFrameReadyCallbacks[k] = cb
                /\ h.state = "pending" =>
                     /\ averageFrameCounter > 0
                     /\ h.waited <= averageNumFrames - averageFrameCounter
                     /\ h.started => h.waited = averageNumFrames - averageFrameCounter
                /\ h.state = "invoked" =>
                     /\ h.waited <= averageNumFrames
                     /\ h.started => h.waited = averageNumFrames
        /\ averageFrameCounter \in 0 .. averageNumFrames
        /\ averageFrameCounter = 0 => averageFrameReadyCallbacks = <<>>)
  /\ \A cb \in AverageCallbacks :
       (averageCallback[cb].state = "pending")
         ~> (averageCallback[cb].state = "invoked")

\* a capture started by one callback's request has ended after a second
\* callback was requested during it and a third was answered at once
C39_Witness ==
  /\ averageFrameCounter = 0
  /\ \E a, b, c \in AverageCallbacks :
       /\ averageCallback[a].state = "invoked" /\ averageCallback[a].started
       /\ averageCallback[a].waited = averageNumFrames
       /\ averageCallback[b].state = "invoked" /\ ~averageCallback[b].started
       /\ averageCallback[b].waited \in 1 .. averageNumFrames - 1
       /\ averageCallback[c].state = "invoked" /\ averageCallback[c].waited = 0

(***************************************************************************)
(* TiePointTool: the corner and disk extractors' threads post their        *)
(* results into triple buffers that the main thread locks in frame().      *)
(***************************************************************************)

\* how many grid centres or disks an extraction can find
ListSizes == {1, 2}

\* cornerExtractionCallback: newValue=cornerBuffer.startNewValue(), cleared
CornerExtractionStart ==
  /\ cornerPc = "idle"
  /\ cornerSlot' = cornerBuffer.write
  /\ cornerBuffer' = startNewValue(cornerBuffer, 0)
  /\ cornerPc' = "writing"
  /\ UNCHANGED <<diskBuffer, diskPc, diskSlot, disks, nextDisk, accumulate,
                 tiePoints, calibration,
                 intrinsicParameterFile, backupFile, persistPc>>
  /\ UNCHANGED nonTpVars

\* cornerExtractionCallback: the centres found are pushed into newValue, the
\* list is posted and an update requested
CornerExtractionPost ==
  /\ cornerPc = "writing"
  /\ \E found \in ListSizes :
       cornerBuffer' = postNewValue([cornerBuffer EXCEPT !.slot[cornerSlot] = found])
  /\ cornerPc' = "idle"
  /\ cornerSlot' = 0
  /\ updateRequested' = TRUE
  /\ UNCHANGED <<diskBuffer, diskPc, diskSlot, disks, nextDisk, accumulate,
                 tiePoints, calibration,
                 intrinsicParameterFile, backupFile, persistPc>>
  /\ UNCHANGED nonTpButUpdate

DiskPostNewValueFirst ==
  /\ diskPc = "idle"
  /\ nextDisk <= MaxValue
  /\ \E found \in ListSizes : disks' = [seq |-> nextDisk, size |-> found]
  /\ diskSlot' = diskBuffer.write
  /\ diskBuffer' = postNewValue(diskBuffer)
  /\ diskPc' = "started"
  /\ UNCHANGED <<cornerBuffer, cornerPc, cornerSlot, nextDisk, accumulate,
                 tiePoints, calibration,
                 intrinsicParameterFile, backupFile, persistPc>>
  /\ UNCHANGED nonTpVars

\* diskExtractionCallback(disks): newValue=diskBuffer.startNewValue()
DiskStartNewValue ==
  /\ diskPc = "idle"
  /\ nextDisk <= MaxValue
  /\ \E found \in ListSizes : disks' = [seq |-> nextDisk, size |-> found]
  /\ diskSlot' = diskBuffer.write
  /\ diskPc' = "started"
  /\ UNCHANGED <<cornerBuffer, cornerPc, cornerSlot, diskBuffer, nextDisk,
                 accumulate, tiePoints, calibration,
                 intrinsicParameterFile, backupFile, persistPc>>
  /\ UNCHANGED nonTpVars

\* diskExtractionCallback: newValue=disks
DiskAssign ==
  /\ diskPc = "started"
  /\ diskBuffer' = [diskBuffer EXCEPT !.slot[diskSlot] = disks]
  /\ diskPc' = "assigned"
  /\ UNCHANGED <<cornerBuffer, cornerPc, cornerSlot, diskSlot, disks, nextDisk,
                 accumulate, tiePoints, calibration,
                 intrinsicParameterFile, backupFile, persistPc>>
  /\ UNCHANGED nonTpVars

\* diskExtractionCallback: diskBuffer.postNewValue(); Vrui::requestUpdate()
DiskPostNewValue ==
  /\ diskPc = "assigned"
  /\ diskBuffer' = postNewValue(diskBuffer)
  /\ diskPc' = "idle"
  /\ diskSlot' = 0
  /\ disks' = NoDisks
  /\ nextDisk' = nextDisk + 1
  /\ updateRequested' = TRUE
  /\ UNCHANGED <<cornerBuffer, cornerPc, cornerSlot, accumulate, tiePoints,
                 calibration,
                 intrinsicParameterFile, backupFile, persistPc>>
  /\ UNCHANGED nonTpButUpdate

DiskExtractionCallback == DiskStartNewValue \/ DiskAssign \/ DiskPostNewValue

\* tiePoints.push_back(TiePointPair(...)) of the pair from disk list d
push_back(tp, d) == [size |-> tp.size + 1, from |-> tp.from \cup {d.seq}]

\* TiePointTool::frame
TiePointFrame ==
  LET corners == getLockedValue(lockNewValue(cornerBuffer))
      locked == getLockedValue(lockNewValue(diskBuffer))
      valid == accumulate /\ corners = 1 /\ locked.size = 1
  IN
  /\ persistPc = "idle"
  /\ valid => tiePoints.size < MaxTiePoints
  /\ cornerBuffer' = lockNewValue(cornerBuffer)
  /\ diskBuffer' = lockNewValue(diskBuffer)
  /\ tiePoints' = IF valid THEN push_back(tiePoints, locked) ELSE tiePoints
  /\ UNCHANGED <<cornerPc, cornerSlot, diskPc, diskSlot, disks, nextDisk,
                 accumulate, calibration,
                 intrinsicParameterFile, backupFile, persistPc>>
  /\ UNCHANGED nonTpVars

\* the rank of the normal matrix of lines 264-305: every pair adds the
\* products of its two equations, pairs that are equal add the same two,
\* and a projective transformation has 11 degrees of freedom
Rank(distinctPairs) ==
  IF 2 * distinctPairs < 11 THEN 2 * distinctPairs ELSE 11

\* TiePointTool::calibrateCameras, lines 262-360: the system of all collected
\* pairs is built, the eigenvector of its smallest eigenvalue is taken as the
\* homography and the residual reported; the file is written next
calibrateCameras ==
  /\ calibration' = [by |-> "TiePointTool", pairs |-> tiePoints.size,
                     rank |-> Rank(Cardinality(tiePoints.from)),
                     outcome |-> "solved", fileBefore |-> intrinsicParameterFile]
  /\ persistPc' = "backup"

\* TiePointTool::buttonCallback, lines 488-518
buttonCallback(buttonSlotIndex, newButtonState) ==
  /\ persistPc = "idle"
  /\ IF buttonSlotIndex = 0
       THEN /\ accumulate' = newButtonState
            /\ UNCHANGED <<calibration, persistPc>>
       ELSE /\ newButtonState
            /\ IF tiePoints.size >= MinTiePoints
                 THEN calibrateCameras
                 ELSE /\ calibration' = [by |-> "TiePointTool", pairs |-> tiePoints.size,
                                         rank |-> Rank(Cardinality(tiePoints.from)),
                                         outcome |-> "error",
                                         fileBefore |-> intrinsicParameterFile]
                      /\ UNCHANGED persistPc
            /\ UNCHANGED accumulate
  /\ UNCHANGED <<cornerBuffer, cornerPc, cornerSlot, diskBuffer, diskPc, diskSlot,
                 disks, nextDisk, tiePoints, intrinsicParameterFile, backupFile>>
  /\ UNCHANGED nonTpVars

\* CalibrateCameras.cpp, main, lines 39-201, run on a tie point file of
\* numEntries entries, distinctEntries of them different: the system is
\* built from the entries (71-129) and solved (131-149), the residual is
\* printed and the intrinsic parameter file read (188-201); the file is
\* written next
CalibrateCamerasMain(numEntries, distinctEntries) ==
  /\ persistPc = "idle"
  /\ intrinsicParameterFile # Missing
  /\ calibration' = [by |-> "CalibrateCameras", pairs |-> numEntries,
                     rank |-> Rank(distinctEntries),
                     outcome |-> "solved", fileBefore |-> intrinsicParameterFile]
  /\ persistPc' = "backup"
  /\ UNCHANGED <<cornerBuffer, cornerPc, cornerSlot, diskBuffer, diskPc, diskSlot,
                 disks, nextDisk, accumulate, tiePoints, intrinsicParameterFile,
                 backupFile>>
  /\ UNCHANGED nonTpVars

\* what the writing of the file leaves alone
persistUnchanged == <<cornerBuffer, cornerPc, cornerSlot, diskBuffer, diskPc,
                      diskSlot, disks, nextDisk, accumulate, tiePoints,
                      calibration, nonTpVars>>

\* TiePointTool.cpp lines 370-376 and CalibrateCameras.cpp lines 203-207:
\* rename(name, name.backup) of the file there is
BackUp ==
  /\ persistPc = "backup"
  /\ IF intrinsicParameterFile # Missing
       THEN /\ backupFile' = intrinsicParameterFile
            /\ intrinsicParameterFile' = Missing
       ELSE UNCHANGED <<intrinsicParameterFile, backupFile>>
  /\ persistPc' = "open"
  /\ UNCHANGED persistUnchanged

\* TiePointTool.cpp line 379 and CalibrateCameras.cpp line 211:
\* IO::openFile(name, IO::File::WriteOnly) creates the file, empty
OpenWriteOnly ==
  /\ persistPc = "open"
  /\ intrinsicParameterFile' = [pairs |-> calibration.pairs, blocks |-> <<>>]
  /\ persistPc' = "write"
  /\ UNCHANGED backupFile
  /\ UNCHANGED persistUnchanged

\* TiePointTool.cpp lines 384-407 and CalibrateCameras.cpp lines 219-249:
\* the lens distortion parameters, the depth projection and the color
\* projection are written one after the other; the file is closed after
\* the last
WriteBlock ==
  /\ persistPc = "write"
  /\ LET count == Len(intrinsicParameterFile.blocks) IN
       /\ intrinsicParameterFile' =
            [intrinsicParameterFile EXCEPT
               !.blocks = Append(@, OriginalFile.blocks[count + 1])]
       /\ persistPc' = IF count + 1 = Len(OriginalFile.blocks) THEN "idle" ELSE "write"
  /\ UNCHANGED backupFile
  /\ UNCHANGED persistUnchanged

\* a write throws or the process dies: nothing more is done to the files
PersistStops ==
  /\ persistPc \in {"backup", "open", "write"}
  /\ persistPc' = "stopped"
  /\ UNCHANGED <<intrinsicParameterFile, backupFile>>
  /\ UNCHANGED persistUnchanged

Persist == BackUp \/ OpenWriteOnly \/ WriteBlock \/ PersistStops

\* The extractors and the main thread running, no button pressed.
ExtractionNext ==
  \/ CornerExtractionStart
  \/ CornerExtractionPost
  \/ DiskExtractionCallback
  \/ TiePointFrame

InitExtraction == MuxIdle /\ NonMuxInit

\* tie point files the calibration utility is run on, by their entries
EntryCounts == {0, MinTiePoints - 1, MinTiePoints}

\* a tie point file: how many entries, how many of them different (all, or
\* all the same)
TiePointFiles ==
  {<<n, d>> \in EntryCounts \X (EntryCounts \cup {1}) :
     d \in {n, IF n = 0 THEN 0 ELSE 1}}

\* The tool after each extractor has delivered one list of one element and
\* returned: what frame() needs to collect pairs.
TiePointToolReady ==
  /\ cornerBuffer = postNewValue(startNewValue(TripleBuffer(0), 1))
  /\ cornerPc = "idle"
  /\ cornerSlot = 0
  /\ diskBuffer = postNewValue(startNewValue(TripleBuffer(NoDisks),
                                               [seq |-> 0, size |-> 1]))
  /\ diskPc = "idle"
  /\ diskSlot = 0
  /\ disks = NoDisks
  /\ nextDisk = 1
  /\ accumulate = FALSE
  /\ tiePoints = [size |-> 0, from |-> {}]
  /\ calibration = NoCalibration
  /\ intrinsicParameterFile = OriginalFile
  /\ backupFile = Missing
  /\ persistPc = "idle"

\* The tool in use by the main thread: frame(), the two buttons, and the
\* stand-alone calibration utility run on a tie point file.
CalibrationNext ==
  \/ TiePointFrame
  \/ \E buttonSlotIndex \in {0, 1}, newButtonState \in BOOLEAN :
       buttonCallback(buttonSlotIndex, newButtonState)
  \/ \E file \in TiePointFiles : CalibrateCamerasMain(file[1], file[2])
  \/ Persist

InitCalibration ==
  /\ MuxIdle
  /\ FrameBufferInit /\ BackgroundViewerInit /\ RawKinectViewerInit
  /\ CameraInit
  /\ ConstructorReturned
  /\ RestInit
  /\ TiePointToolReady

SpecCalibration == InitCalibration /\ [][CalibrationNext]_vars

\* Vrui calls frame() again and again.
SpecExtraction ==
  InitExtraction /\ [][ExtractionNext]_vars /\ WF_vars(TiePointFrame)

(***************************************************************************)
(* Direct camera source: startStreaming and stopStreaming called by the    *)
(* application, and the background streaming thread.                       *)
(***************************************************************************)

NeverStreaming(cam) == FALSE
\* if(runStreamingThread) throw ...
AlreadyStreaming(cam) == cam.runStreamingThread

CleanUpDangling(cam) == cam
\* the catch block of startStreaming: both callbacks deleted and cleared
CleanUp(cam) ==
  [cam EXCEPT !.colorStreamingCallback = 0, !.depthStreamingCallback = 0]

\* the callback objects a source holds
Callbacks(cam) == {cam.colorStreamingCallback, cam.depthStreamingCallback} \ {0}

\* startStreaming(newColorStreamingCallback, newDepthStreamingCallback); the
\* device may fail to start
CameraStartStreaming ==
  /\ camCaller = "idle"
  /\ camSessions < MaxSessions
  /\ camSessions' = camSessions + 1
  /\ \E withColor, withDepth, deviceFails \in BOOLEAN :
       LET newColor == IF withColor THEN 2 * camSessions + 1 ELSE 0
           newDepth == IF withDepth THEN 2 * camSessions + 2 ELSE 0
           installed == [camera EXCEPT !.colorStreamingCallback = newColor,
                                       !.depthStreamingCallback = newDepth]
           call(result) ==
             [op |-> "start", result |-> result, before |-> camera,
              deletedBefore |-> camDeleted,
              offered |-> {newColor, newDepth} \ {0},
              afterFailure |-> camLast.op = "start" /\ camLast.result = "failed"]
       IN
       IF AlreadyStreaming(camera)
         THEN /\ camLast' = call("busy")
              /\ UNCHANGED <<camera, camThread, camDeleted>>
         ELSE IF deviceFails
           THEN /\ camera' = CleanUp(installed)
                /\ camDeleted' = camDeleted \cup Callbacks(installed)
                /\ camLast' = call("failed")
                /\ UNCHANGED camThread
           ELSE /\ camera' = [installed EXCEPT !.runStreamingThread = TRUE,
                                               !.deviceStarted = TRUE]
                /\ camThread' = "loop"
                /\ camLast' = call("started")
                /\ UNCHANGED camDeleted
  /\ UNCHANGED <<camCalling, camCaller>>
  /\ UNCHANGED nonCamVars

\* stopStreaming: bails out if not streaming, else clears the run flag
CameraStopStreaming ==
  /\ camCaller = "idle"
  /\ camLast.op # "none"
  /\ IF ~camera.runStreamingThread
       THEN /\ camLast' = [camLast EXCEPT !.op = "stop", !.result = "noop",
                                          !.before = camera,
                                          !.deletedBefore = camDeleted,
                                          !.offered = {},
                                          !.afterFailure = FALSE]
            /\ UNCHANGED <<camera, camCaller>>
       ELSE /\ camera' = [camera EXCEPT !.runStreamingThread = FALSE]
            /\ camCaller' = "joining"
            /\ camLast' = [camLast EXCEPT !.op = "stop", !.result = "joining",
                                          !.before = camera,
                                          !.deletedBefore = camDeleted,
                                          !.offered = {},
                                          !.afterFailure = FALSE]
  /\ UNCHANGED <<camThread, camCalling, camSessions, camDeleted>>
  /\ UNCHANGED nonCamVars

JoinSkipped(thread) == TRUE
\* streamingThread.join() returns
Joined(thread) == thread = "terminated"

\* stopStreaming: after the join the callbacks are deleted and cleared and
\* the device is stopped, which may fail
CameraStopJoined ==
  /\ camCaller = "joining"
  /\ Joined(camThread)
  /\ camDeleted' = camDeleted \cup Callbacks(camera)
  /\ \E deviceFails \in BOOLEAN :
       /\ camera' = [CleanUp(camera) EXCEPT !.deviceStarted = deviceFails]
       /\ camLast' = [camLast EXCEPT !.result = IF deviceFails THEN "stopFailed"
                                                               ELSE "stopped"]
  /\ camThread' = IF camThread = "terminated" THEN "none" ELSE camThread
  /\ camCaller' = "idle"
  /\ UNCHANGED <<camCalling, camSessions>>
  /\ UNCHANGED nonCamVars

\* streaming thread: a frame has arrived and its callback is called
StreamingThreadCall ==
  /\ camThread = "loop"
  /\ camera.runStreamingThread
  /\ \E cb \in Callbacks(camera) : camCalling' = cb
  /\ camThread' = "calling"
  /\ UNCHANGED <<camera, camCaller, camSessions, camDeleted, camLast>>
  /\ UNCHANGED nonCamVars

\* streaming thread: the callback returns
StreamingThreadReturn ==
  /\ camThread = "calling"
  /\ camCalling' = 0
  /\ camThread' = "loop"
  /\ UNCHANGED <<camera, camCaller, camSessions, camDeleted, camLast>>
  /\ UNCHANGED nonCamVars

\* streaming thread: finds the run flag cleared and returns
StreamingThreadExit ==
  /\ camThread = "loop"
  /\ ~camera.runStreamingThread
  /\ camThread' = "terminated"
  /\ UNCHANGED <<camera, camCalling, camCaller, camSessions, camDeleted, camLast>>
  /\ UNCHANGED nonCamVars

streamingThreadMethod ==
  StreamingThreadCall \/ StreamingThreadReturn \/ StreamingThreadExit

CameraNext ==
  \/ CameraStartStreaming
  \/ CameraStopStreaming
  \/ CameraStopJoined
  \/ streamingThreadMethod

InitCamera == MuxIdle /\ NonMuxInit

SpecCamera == InitCamera /\ [][CameraNext]_vars

(***************************************************************************)
(* Construction of the multiplexed source:                                 *)
(* MultiplexedFrameSource::MultiplexedFrameSource with Stream::Stream and, *)
(* in the clean-up, Stream::~Stream.  The constructor runs in one thread;  *)
(* no other thread can reach the object before it returns.                 *)
(***************************************************************************)

\* what a server may send as its endianness marker besides the right one
GarbageMarker == EndiannessMarker - 120

ByteOrders == {"same", "opposite"}
ServerMarkers == {EndiannessMarker, GarbageMarker}
ServerVersions == {ProtocolVersion, ProtocolVersion + 1}

\* a 32-bit word with its four bytes in reverse order
ByteSwap32(x) ==
  (x % 256) * 16777216 + ((x \div 256) % 256) * 65536
    + ((x \div 65536) % 256) * 256 + ((x \div 16777216) % 256)

\* the four bytes of v as a server of the given byte order puts them on the
\* pipe, taken as a word of the client's byte order
Wire(v) == IF server.byteOrder = "opposite" THEN ByteSwap32(v) ELSE v

\* pipe->read<Misc::UInt32>()
ReadUInt32(raw, swap) == IF swap THEN ByteSwap32(raw) ELSE raw

SwapAlways(flag) == TRUE
\* if(endiannessFlag==0x78563412U), line 305
SwapNeeded(flag) == flag = SwappedMarker

\* the outcomes of new Stream(this,i,*pipe): it returns, a read of lines
\* 54-101 throws, or the creation of a frame reader in lines 104-114 throws
\* after the color frame reader has been stored
StreamOutcomes == {"ok", "headerFails", "depthReaderFails"}

RegisteredOnSuccess(alive, outcome) == IF outcome = "ok" THEN alive + 1 ELSE alive
\* ++owner->numStreamsAlive, lines 48-51: the first statement of the
\* constructor, executed whatever happens later
Registered(alive, outcome) == alive + 1

\* the state of the object when the constructor's body is entered: the
\* member initialisers of lines 283-289 and no stream yet
MuxUnconstructed ==
  /\ numStreams = 0
  /\ pipe = <<>>
  /\ srvSent = <<>>
  /\ srvIdx = 0
  /\ hdr = NoHdr
  /\ rpc = "notStarted"
  /\ loopI = 0
  /\ currentMetaFrameIndex = 0
  /\ numMissingColorFrames = 0
  /\ numMissingDepthFrames = 0
  /\ frames = <<>>
  /\ streams = <<>>
  /\ numStreamsAlive = 0
  /\ streaming = <<>>
  /\ colorStreamingCallback = <<>>
  /\ depthStreamingCallback = <<>>
  /\ streamMutex = Free
  /\ streamingMutex = <<>>
  /\ callbacks = <<>>
  /\ running = NoCall
  /\ upc = <<>>
  /\ lastOneOut = <<>>
  /\ ownerDeleted = 0
  /\ cbDeleted = {}
  /\ nextCb = 1
  /\ stopReturned = <<>>
  /\ errLogged = FALSE

ConstructorEntered ==
  /\ ctorPc = "write"
  /\ ctorI = 0
  /\ ctorError = "none"
  /\ server \in [byteOrder : ByteOrders, marker : ServerMarkers,
                 version : ServerVersions, numStreams : 0 .. MaxStreams]
  /\ written = <<>>
  /\ wordsRead = 0
  /\ endiannessFlag = 0
  /\ swapOnRead = FALSE
  /\ serverProtocolVersion = 0
  /\ allStreamsOk = TRUE
  /\ colorFrameReaders = <<>>
  /\ depthFrameReaders = <<>>
  /\ readerReleased = <<>>
  /\ streamCreated = {}
  /\ streamReleased = <<>>
  /\ streamHeadersRead = 0

\* what the handshake leaves alone
ctorHandshakeUnchanged == <<muxVars, nonCtorVars, ctorI, server, allStreamsOk,
                            colorFrameReaders, depthFrameReaders, readerReleased,
                            streamCreated, streamReleased, streamHeadersRead>>

\* lines 299-302: the client's endianness flag and protocol version
WriteHandshake ==
  /\ ctorPc = "write"
  /\ written' = written \o <<EndiannessMarker, ProtocolVersion>>
  /\ ctorPc' = "readMarker"
  /\ UNCHANGED <<ctorError, wordsRead, endiannessFlag, swapOnRead,
                 serverProtocolVersion>>
  /\ UNCHANGED ctorHandshakeUnchanged

\* lines 304-309: the server's endianness
ReadEndianness ==
  /\ ctorPc = "readMarker"
  /\ LET flag == ReadUInt32(Wire(server.marker), swapOnRead) IN
       /\ endiannessFlag' = flag
       /\ wordsRead' = wordsRead + 1
       /\ IF SwapNeeded(flag)
            THEN /\ swapOnRead' = TRUE
                 /\ ctorPc' = "readVersion"
                 /\ UNCHANGED ctorError
            ELSE IF flag # EndiannessMarker
              THEN /\ ctorError' = "Server has unrecognized endianness"
                   /\ ctorPc' = "failed"
                   /\ UNCHANGED swapOnRead
              ELSE /\ ctorPc' = "readVersion"
                   /\ UNCHANGED <<swapOnRead, ctorError>>
  /\ UNCHANGED <<written, serverProtocolVersion>>
  /\ UNCHANGED ctorHandshakeUnchanged

\* lines 311-315: the server's protocol version (and its time stamp offset)
ReadProtocolVersion ==
  /\ ctorPc = "readVersion"
  /\ serverProtocolVersion' = ReadUInt32(Wire(server.version), swapOnRead)
  /\ wordsRead' = wordsRead + 1
  /\ ctorPc' = "readNumStreams"
  /\ UNCHANGED <<ctorError, written, endiannessFlag, swapOnRead>>
  /\ UNCHANGED ctorHandshakeUnchanged

\* lines 317-327: the number of streams and the zeroed arrays; the fields of
\* the Stream objects to come hold what Stream's initialisers give them
ReadNumStreams ==
  /\ ctorPc = "readNumStreams"
  /\ LET n == ReadUInt32(Wire(server.numStreams), swapOnRead) IN
       /\ n <= MaxStreams
       /\ numStreams' = n
       /\ streams' = [i \in StreamIds(n) |-> FALSE]
       /\ colorFrameReaders' = [i \in StreamIds(n) |-> 0]
       /\ depthFrameReaders' = [i \in StreamIds(n) |-> 0]
       /\ readerReleased' = [r \in {"color", "depth"} \X StreamIds(n) |-> 0]
       /\ streamReleased' = [i \in StreamIds(n) |-> 0]
       /\ streaming' = [i \in StreamIds(n) |-> FALSE]
       /\ colorStreamingCallback' = [i \in StreamIds(n) |-> 0]
       /\ depthStreamingCallback' = [i \in StreamIds(n) |-> 0]
       /\ streamingMutex' = [i \in StreamIds(n) |-> Free]
       /\ upc' = [i \in StreamIds(n) |-> "idle"]
       /\ lastOneOut' = [i \in StreamIds(n) |-> FALSE]
       /\ stopReturned' = [i \in StreamIds(n) |-> FALSE]
       /\ nextCb' = 2 * n + 1
  /\ wordsRead' = wordsRead + 1
  /\ allStreamsOk' = TRUE
  /\ ctorI' = 0
  /\ ctorPc' = "newStream"
  /\ UNCHANGED <<pipe, srvSent, srvIdx, hdr, rpc, loopI, currentMetaFrameIndex,
                 numMissingColorFrames, numMissingDepthFrames, frames,
                 numStreamsAlive, streamMutex, callbacks, running, ownerDeleted,
                 cbDeleted, errLogged>>
  /\ UNCHANGED <<ctorError, server, written, endiannessFlag, swapOnRead,
                 serverProtocolVersion, streamCreated, streamHeadersRead>>
  /\ UNCHANGED nonCtorVars

\* what the loops over the streams leave alone
ctorLoopUnchanged == <<numStreams, pipe, srvSent, srvIdx, hdr, loopI,
                       currentMetaFrameIndex, streamMutex, streamingMutex,
                       colorStreamingCallback, depthStreamingCallback,
                       callbacks, running, upc, lastOneOut, nextCb, stopReturned,
                       errLogged, nonCtorVars, server, written, wordsRead,
                       endiannessFlag, swapOnRead, serverProtocolVersion>>

\* lines 329-340 with Stream::Stream, lines 42-118: one pass of the loop
NewStream ==
  /\ ctorPc = "newStream"
  /\ ctorI < numStreams
  /\ \E outcome \in StreamOutcomes :
       /\ numStreamsAlive' = Registered(numStreamsAlive, outcome)
       /\ streamHeadersRead' = streamHeadersRead + 1
       /\ colorFrameReaders' =
            [colorFrameReaders EXCEPT ![ctorI] = IF outcome = "headerFails" THEN 0 ELSE 1]
       /\ depthFrameReaders' =
            [depthFrameReaders EXCEPT ![ctorI] = IF outcome = "ok" THEN 1 ELSE 0]
       /\ streams' = [streams EXCEPT ![ctorI] = outcome = "ok"]
       /\ streamCreated' = IF outcome = "ok" THEN streamCreated \cup {ctorI}
                                             ELSE streamCreated
       /\ allStreamsOk' = (allStreamsOk /\ outcome = "ok")
  /\ ctorI' = ctorI + 1
  /\ UNCHANGED <<rpc, frames, numMissingColorFrames, numMissingDepthFrames,
                 streaming, ownerDeleted, cbDeleted, ctorPc, ctorError,
                 readerReleased, streamReleased>>
  /\ UNCHANGED ctorLoopUnchanged

\* lines 342-344 and 360-364: with all streams all right, the frame buffer
\* array and the start of the receiving thread; else on to the clean-up
StartReceiving ==
  /\ ctorPc = "newStream"
  /\ ctorI = numStreams
  /\ IF allStreamsOk
       THEN /\ frames' = [f \in FrameIds(numStreams) |-> NoFrame]
            /\ numMissingColorFrames' = numStreams
            /\ numMissingDepthFrames' = numStreams
            /\ rpc' = "readHeader"
            /\ ctorPc' = "done"
            /\ UNCHANGED ctorI
       ELSE /\ ctorPc' = "cleanup"
            /\ ctorI' = 0
            /\ UNCHANGED <<frames, numMissingColorFrames, numMissingDepthFrames, rpc>>
  /\ UNCHANGED <<streams, numStreamsAlive, streaming, ownerDeleted, cbDeleted,
                 ctorError, allStreamsOk, colorFrameReaders, depthFrameReaders,
                 readerReleased, streamCreated, streamReleased, streamHeadersRead>>
  /\ UNCHANGED ctorLoopUnchanged

\* delete of the two frame readers of stream i; a null pointer is left alone
DeleteReaders(released, i) ==
  [r \in DOMAIN released |->
     IF r = <<"color", i>> THEN released[r] + colorFrameReaders[i]
     ELSE IF r = <<"depth", i>> THEN released[r] + depthFrameReaders[i]
     ELSE released[r]]

\* ~MultiplexedFrameSource, lines 374-379: the readers of all streams
RECURSIVE DeleteAllReaders(_, _)
DeleteAllReaders(released, n) ==
  IF n = 0 THEN released
  ELSE DeleteAllReaders(DeleteReaders(released, n - 1), n - 1)

\* lines 345-351 with Stream::~Stream, lines 120-146: one pass of the
\* clean-up loop.  A stream that finds itself the last one deletes the
\* owner, whose destructor deletes the readers; the constructor would go on
\* inside a destroyed object, which is where the model stops following it.
CloseStream ==
  /\ ctorPc = "cleanup"
  /\ ctorI < numStreams
  /\ IF streams[ctorI]
       THEN /\ streaming' = [streaming EXCEPT ![ctorI] = FALSE]
            /\ cbDeleted' = cbDeleted \cup Installed(ctorI)
            /\ streams' = [streams EXCEPT ![ctorI] = FALSE]
            /\ numStreamsAlive' = numStreamsAlive - 1
            /\ streamReleased' = [streamReleased EXCEPT ![ctorI] = @ + 1]
            /\ IF LastOneOut(numStreamsAlive - 1)
                 THEN /\ ownerDeleted' = ownerDeleted + 1
                      /\ readerReleased' =
                           DeleteAllReaders(DeleteReaders(readerReleased, ctorI), numStreams)
                      /\ ctorPc' = "destroyed"
                 ELSE /\ readerReleased' = DeleteReaders(readerReleased, ctorI)
                      /\ UNCHANGED <<ownerDeleted, ctorPc>>
       ELSE /\ readerReleased' = DeleteReaders(readerReleased, ctorI)
            /\ UNCHANGED <<streaming, cbDeleted, streams, numStreamsAlive,
                           streamReleased, ownerDeleted, ctorPc>>
  /\ ctorI' = ctorI + 1
  /\ UNCHANGED <<rpc, frames, numMissingColorFrames, numMissingDepthFrames,
                 ctorError, allStreamsOk, colorFrameReaders, depthFrameReaders,
                 streamCreated, streamHeadersRead>>
  /\ UNCHANGED ctorLoopUnchanged

\* lines 353-357: the arrays go and the constructor throws
ThrowStreamError ==
  /\ ctorPc = "cleanup"
  /\ ctorI = numStreams
  /\ ctorError' = "Error while initializing component streams"
  /\ ctorPc' = "failed"
  /\ UNCHANGED <<rpc, frames, numMissingColorFrames, numMissingDepthFrames,
                 streams, numStreamsAlive, streaming, ownerDeleted, cbDeleted,
                 ctorI, allStreamsOk, colorFrameReaders, depthFrameReaders,
                 readerReleased, streamCreated, streamReleased, streamHeadersRead>>
  /\ UNCHANGED ctorLoopUnchanged

\* MultiplexedFrameSource::MultiplexedFrameSource, lines 282-365
ConstructorNext ==
  \/ WriteHandshake
  \/ ReadEndianness
  \/ ReadProtocolVersion
  \/ ReadNumStreams
  \/ NewStream
  \/ StartReceiving
  \/ CloseStream
  \/ ThrowStreamError

InitConstructor ==
  /\ MuxUnconstructed
  /\ FrameBufferInit /\ BackgroundViewerInit /\ RawKinectViewerInit
  /\ TiePointToolInit
  /\ CameraInit
  /\ ConstructorEntered
  /\ RestInit

SpecConstructor == InitConstructor /\ [][ConstructorNext]_vars

(***************************************************************************)
(* The Orbbec SDK context: OrbbecSDKContext::ref and unref, called by the  *)
(* OrbbecSDKContextPtr member of every CameraOrbbec when it is constructed *)
(* and destroyed.  Each call runs under refMutex, so it is one step.       *)
(***************************************************************************)

\* what new ob::Context can do: return an object, or throw because the SDK
\* cannot be initialised (acquireContext "throws exception if context can
\* not be initialized", OrbbecSDKContext.h line 64)
ContextOutcomes == {"created", "throws"}

\* OrbbecSDKContext::ref, lines 67-84, called from the initialiser of
\* CameraOrbbec::context, CameraOrbbec.cpp line 140
Acquire(c) ==
  /\ cameraOrbbec[c] = "none"
  /\ acquisitions < MaxAcquisitions
  /\ acquisitions' = acquisitions + 1
  /\ contextRefCount' = contextRefCount + 1
  /\ IF contextRefCount = 0
       THEN \E outcome \in ContextOutcomes :
              IF outcome = "created"
                THEN /\ context' = 1
                     /\ contextsCreated' = contextsCreated + 1
                     /\ cameraOrbbec' = [cameraOrbbec EXCEPT ![c] = "constructing"]
                ELSE UNCHANGED <<context, contextsCreated, cameraOrbbec>>
       ELSE /\ cameraOrbbec' = [cameraOrbbec EXCEPT ![c] = "constructing"]
            /\ UNCHANGED <<context, contextsCreated>>
  /\ UNCHANGED contextsDestroyed
  /\ UNCHANGED nonSdkVars

\* OrbbecSDKContext::unref, lines 86-98
unrefContext ==
  /\ contextRefCount' = contextRefCount - 1
  /\ IF contextRefCount - 1 = 0
       THEN /\ context' = 0
            /\ contextsDestroyed' = contextsDestroyed + context
       ELSE UNCHANGED <<context, contextsDestroyed>>

\* CameraOrbbec::CameraOrbbec, lines 144-154: the body returns
CameraConstructed(c) ==
  /\ cameraOrbbec[c] = "constructing"
  /\ cameraOrbbec' = [cameraOrbbec EXCEPT ![c] = "alive"]
  /\ UNCHANGED <<contextRefCount, context, acquisitions, contextsCreated,
                 contextsDestroyed>>
  /\ UNCHANGED nonSdkVars

\* CameraOrbbec::CameraOrbbec, lines 145-147: the body throws, and the
\* member context is destroyed
CameraConstructionFails(c) ==
  /\ cameraOrbbec[c] = "constructing"
  /\ unrefContext
  /\ cameraOrbbec' = [cameraOrbbec EXCEPT ![c] = "none"]
  /\ UNCHANGED <<acquisitions, contextsCreated>>
  /\ UNCHANGED nonSdkVars

\* CameraOrbbec::~CameraOrbbec, lines 171-173, and its member context
CameraDestroyed(c) ==
  /\ cameraOrbbec[c] = "alive"
  /\ unrefContext
  /\ cameraOrbbec' = [cameraOrbbec EXCEPT ![c] = "none"]
  /\ UNCHANGED <<acquisitions, contextsCreated>>
  /\ UNCHANGED nonSdkVars

OrbbecNext ==
  \E c \in Cameras :
    \/ Acquire(c)
    \/ CameraConstructed(c)
    \/ CameraConstructionFails(c)
    \/ CameraDestroyed(c)

InitOrbbec == MuxIdle /\ NonMuxInit

SpecOrbbec == InitOrbbec /\ [][OrbbecNext]_vars

\* the camera sources that hold the context
ContextHolders == {c \in Cameras : cameraOrbbec[c] # "none"}

\* C23: the SDK context exists exactly while a camera source holds it: the
\* reference count is the number of holders, the context is created by the
\* acquisition that raises the count from 0, destroyed by the release that
\* brings it back to 0 and created afresh afterwards, never twice without a
\* destruction in between.
C23_ContextWhileHeld ==
  /\ contextRefCount = Cardinality(ContextHolders)
  /\ context = 1 <=> ContextHolders # {}
  /\ contextsCreated - contextsDestroyed = context

(***************************************************************************)
(* ProjectorBase: the stored parameters and the combined projection        *)
(***************************************************************************)

StaleProjection(eps, ips, stale) == stale
\* worldDepthProjection=extrinsicParameters;
\* worldDepthProjection*=intrinsicParameters.depthProjection;
\* lines 89-91 and 99-101, with the parameters as just stored
CombinedProjection(eps, ips, stale) == Compose(eps, ips.depthProjection)

\* ProjectorBase::setIntrinsicParameters, lines 84-92
setIntrinsicParameters(ips) ==
  /\ setCalls < MaxSetCalls
  /\ intrinsicParameters' = ips
  /\ worldDepthProjection' = CombinedProjection(extrinsicParameters, ips, worldDepthProjection)
  /\ setCalls' = setCalls + 1
  /\ UNCHANGED extrinsicParameters
  /\ UNCHANGED nonProjVars

\* ProjectorBase::setExtrinsicParameters, lines 94-102
setExtrinsicParameters(eps) ==
  /\ setCalls < MaxSetCalls
  /\ extrinsicParameters' = eps
  /\ worldDepthProjection' = CombinedProjection(eps, intrinsicParameters, worldDepthProjection)
  /\ setCalls' = setCalls + 1
  /\ UNCHANGED intrinsicParameters
  /\ UNCHANGED nonProjVars

ProjectorBaseNext ==
  \/ \E ips \in [depthProjection : Transforms] : setIntrinsicParameters(ips)
  \/ \E eps \in Transforms : setExtrinsicParameters(eps)

InitProjectorBase ==
  /\ MuxIdle
  /\ FrameBufferInit /\ BackgroundViewerInit /\ RawKinectViewerInit
  /\ TiePointToolInit
  /\ CameraInit
  /\ ConstructorReturned
  /\ LateInit
  /\ ColorBackgroundInit
  /\ OrbbecSDKContextInit
  /\ ProjectorBaseInit
  /\ DepthCorrectionIdle
  /\ StreamHeaderIdle
  /\ CompressDepthFileInit

SpecProjectorBase == InitProjectorBase /\ [][ProjectorBaseNext]_vars

(* ---- the depth frame size and the per-pixel depth correction buffer ---- *)

\* the depth frame sizes a caller sets
DepthFrameSizes == {<<1, 1>>, <<2, 1>>, <<1, 2>>, <<2, 2>>}

\* new PixelCorrection[frameSize.volume()], FrameSource.cpp line 211
PixelCorrectionArray(frameSize) ==
  [allocated |-> TRUE, entries |-> frameSize[1] * frameSize[2]]

\* setDepthFrameSize, lines 65-69
setDepthFrameSize(newDepthFrameSize) ==
  /\ bufferCalls < MaxSetCalls
  /\ depthSize' = newDepthFrameSize
  /\ bufferCalls' = bufferCalls + 1
  /\ UNCHANGED <<depthCorrectionBuffer, dip>>
  /\ UNCHANGED nonPdVars

\* setDepthCorrection(dc), lines 71-82: the buffer is deleted, and evaluated
\* anew for the current depthSize if dc is not null
setDepthCorrectionBuffer(dcGiven) ==
  /\ bufferCalls < MaxSetCalls
  /\ depthCorrectionBuffer' =
       IF dcGiven THEN PixelCorrectionArray(depthSize) ELSE NullBuffer
  /\ bufferCalls' = bufferCalls + 1
  /\ UNCHANGED <<depthSize, dip>>
  /\ UNCHANGED nonPdVars

\* projectPoint, lines 132-142, for a point that falls into the pixel
\* (dipx, dipy): depthCorrection+(dipy*depthSize[0]+dipx) is read if the
\* pixel lies inside depthSize.  A read past the array gives any value or
\* ends the process.
projectPoint(dipx, dipy) ==
  /\ dip' =
       IF /\ depthCorrectionBuffer # NullBuffer
          /\ dipx >= 0 /\ dipx < depthSize[1] /\ dipy >= 0 /\ dipy < depthSize[2]
         THEN IF dipy * depthSize[1] + dipx < depthCorrectionBuffer.entries
                THEN "corrected"
                ELSE "readPastEnd"
         ELSE "uncorrected"
  /\ UNCHANGED <<depthSize, depthCorrectionBuffer, bufferCalls>>
  /\ UNCHANGED nonPdVars

ProjectorBufferNext ==
  \/ \E newDepthFrameSize \in DepthFrameSizes : setDepthFrameSize(newDepthFrameSize)
  \/ \E dcGiven \in BOOLEAN : setDepthCorrectionBuffer(dcGiven)
  \/ \E dipx, dipy \in -1 .. 2 : projectPoint(dipx, dipy)

SpecProjectorBuffer == InitViewer /\ [][ProjectorBufferNext]_vars

\* C37: after any calls of setDepthFrameSize and setDepthCorrection, the
\* buffer is null or has exactly width*height entries for the current
\* depthSize, and projectPoint never reads past its end.
C37_BufferMatchesDepthSize ==
  /\ depthCorrectionBuffer # NullBuffer =>
       depthCorrectionBuffer.entries = depthSize[1] * depthSize[2]
  /\ dip # "readPastEnd"

\* C24: after the construction from a frame source and after any calls of
\* the two setters, worldDepthProjection is the stored extrinsic parameters
\* composed with the stored depth projection, the depth projection applied
\* first: projectPoint never works with a stale combination.
C24_WorldDepthProjectionCurrent ==
  \A x \in 0 .. 2 :
    (worldDepthProjection[1] * x + worldDepthProjection[2]) % 3 =
      (extrinsicParameters[1] *
         ((intrinsicParameters.depthProjection[1] * x
             + intrinsicParameters.depthProjection[2]) % 3)
         + extrinsicParameters[2]) % 3

C24_Witness ==
  /\ setCalls = MaxSetCalls
  /\ Compose(extrinsicParameters, intrinsicParameters.depthProjection)
       # Compose(intrinsicParameters.depthProjection, extrinsicParameters)
  /\ worldDepthProjection # <<1, 0>>

(***************************************************************************)
(* FrameSource::DepthCorrection: reading, writing and evaluating.  Words   *)
(* are the 32-bit items of the file (UInt32 or Float32, four bytes each);  *)
(* coefficients are small numbers and the B-spline is evaluated exactly,   *)
(* as a numerator over a stated denominator.                               *)
(***************************************************************************)

PixelCorrection(s, o) == [scale |-> s, offset |-> o]

\* the depth frame the corrections are evaluated for
DepthCorrectionFrameSize == <<2, 2>>
DepthCorrectionPixels ==
  (0 .. DepthCorrectionFrameSize[1] - 1) \X (0 .. DepthCorrectionFrameSize[2] - 1)

\* unsigned int numControlPoints=(numSegments[1]+degree)*(numSegments[0]+degree)
NumControlPoints(degree, numSegments) ==
  (numSegments[2] + degree) * (numSegments[1] + degree)

\* DepthCorrection(unsigned int sDegree,const Size& sNumSegments), lines 36-48
DepthCorrectionDummy(sDegree, sNumSegments) ==
  [degree |-> sDegree, numSegments |-> sNumSegments,
   controlPoints |-> [i \in 1 .. NumControlPoints(sDegree, sNumSegments) |->
                        PixelCorrection(1, 0)]]

\* DepthCorrection(IO::File&), lines 50-66: the object read from the words
\* of the file, or NoObject where the file ends before the record does and
\* file.read throws
DepthCorrectionFromFile(file) ==
  IF Len(file) < 3 THEN NoObject
  ELSE LET degree == file[1]
           numSegments == <<file[2], file[3]>>
           numControlPoints == NumControlPoints(degree, numSegments)
       IN IF Len(file) < 3 + 2 * numControlPoints THEN NoObject
          ELSE [degree |-> degree, numSegments |-> numSegments,
                controlPoints |-> [i \in 1 .. numControlPoints |->
                   PixelCorrection(file[3 + 2 * i - 1], file[3 + 2 * i])]]

\* the words a reader of the object has consumed
WordsOf(object) == 3 + 2 * NumControlPoints(object.degree, object.numSegments)

DepthCorrectionWriteOffsetFirst(object) ==
  <<object.degree, object.numSegments[1], object.numSegments[2]>> \o
    [k \in 1 .. 2 * NumControlPoints(object.degree, object.numSegments) |->
       IF k % 2 = 1 THEN object.controlPoints[(k + 1) \div 2].offset
                    ELSE object.controlPoints[k \div 2].scale]
\* DepthCorrection::write, lines 85-99
DepthCorrectionWrite(object) ==
  <<object.degree, object.numSegments[1], object.numSegments[2]>> \o
    [k \in 1 .. 2 * NumControlPoints(object.degree, object.numSegments) |->
       IF k % 2 = 1 THEN object.controlPoints[(k + 1) \div 2].scale
                    ELSE object.controlPoints[k \div 2].offset]

\* bs(i,n,x), lines 109-125, at x = num/unit: the numerator of the value
\* over BsDenominator(n, unit)
RECURSIVE bs(_, _, _, _)
bs(i, n, num, unit) ==
  IF n = 0
    THEN IF i * unit <= num /\ num < (i + 1) * unit THEN 1 ELSE 0
    ELSE (num - i * unit) * bs(i, n - 1, num, unit)
           + ((i + n + 1) * unit - num) * bs(i + 1, n - 1, num, unit)

RECURSIVE BsDenominator(_, _)
BsDenominator(n, unit) ==
  IF n = 0 THEN 1 ELSE n * unit * BsDenominator(n - 1, unit)

\* d[i]=((float(pixel[i])+0.5f)*float(numSegments[i]))/float(frameSize[i]),
\* as the numerator over 2*frameSize[i]
SplineNum(p, segments) == (2 * p + 1) * segments

\* result.scale+=cpPtr->scale*bsi*bsj over the control points lo .. hi
RECURSIVE WeightedSum(_, _, _, _, _)
WeightedSum(object, weight(_), field, lo, hi) ==
  IF lo > hi THEN 0
  ELSE IF lo = hi THEN object.controlPoints[lo][field] * weight(lo)
  ELSE LET mid == (lo + hi) \div 2
       IN WeightedSum(object, weight, field, lo, mid)
            + WeightedSum(object, weight, field, mid + 1, hi)

\* getPixelCorrection(const Offset& pixel,const Size& frameSize), lines 129-156
getPixelCorrection(object, pixel, frameSize) ==
  LET id == object.degree
      maxj == object.numSegments[1] + id
      ux == 2 * frameSize[1]
      uy == 2 * frameSize[2]
      dx == SplineNum(pixel[1], object.numSegments[1])
      dy == SplineNum(pixel[2], object.numSegments[2])
      weight(k) == bs(((k - 1) \div maxj) - id, id, dy, uy)
                     * bs(((k - 1) % maxj) - id, id, dx, ux)
      n == NumControlPoints(id, object.numSegments)
  IN [scale |-> WeightedSum(object, weight, "scale", 1, n),
      offset |-> WeightedSum(object, weight, "offset", 1, n),
      denom |-> BsDenominator(id, ux) * BsDenominator(id, uy)]

\* one level of deBoor's algorithm in bspline(), lines 177-201: the
\* temporaries after blending the columns and then the rows
RECURSIVE deBoor(_, _, _, _, _, _, _, _)
deBoor(T, degree, ni, j0, i0, dx, ux, dy) ==
  IF ni = degree THEN T[0][0]
  ELSE
    LET sd == degree - ni
        uy == ux[2]
        wx0(j) == (j0 + j + 1) * ux[1] - dx
        wy0(i) == (i0 + i + 1) * uy - dy
        Tx == [i \in 0 .. degree |-> [j \in 0 .. degree |->
                 IF i <= sd /\ j < sd
                   THEN (sd * ux[1] - wx0(j)) * T[i][j + 1] + wx0(j) * T[i][j]
                   ELSE sd * ux[1] * T[i][j]]]
        Ty == [i \in 0 .. degree |-> [j \in 0 .. degree |->
                 IF i < sd /\ j <= sd
                   THEN (sd * uy - wy0(i)) * Tx[i + 1][j] + wy0(i) * Tx[i][j]
                   ELSE sd * uy * Tx[i][j]]]
    IN deBoor(Ty, degree, ni + 1, j0, i0, dx, ux, dy)

\* bspline(degree,numSegments,controlPoints,x,y), lines 166-204
bspline(object, field, dx, dy, ux, uy) ==
  LET i0 == dy \div uy
      j0 == dx \div ux
      degree == object.degree
      T == [i \in 0 .. degree |-> [j \in 0 .. degree |->
              object.controlPoints[(i0 + i) * (object.numSegments[1] + degree)
                                     + (j0 + j) + 1][field]]]
  IN deBoor(T, degree, 0, j0, i0, dx, <<ux, uy>>, dy)

\* getPixelCorrection(const Size& frameSize), lines 208-225: the table
getPixelCorrectionTable(object, frameSize) ==
  [pixel \in (0 .. frameSize[1] - 1) \X (0 .. frameSize[2] - 1) |->
     LET ux == 2 * frameSize[1]
         uy == 2 * frameSize[2]
         dx == SplineNum(pixel[1], object.numSegments[1])
         dy == SplineNum(pixel[2], object.numSegments[2])
     IN [scale |-> bspline(object, "scale", dx, dy, ux, uy),
         offset |-> bspline(object, "offset", dx, dy, ux, uy),
         denom |-> BsDenominator(object.degree, ux)
                     * BsDenominator(object.degree, uy)]]

\* float bsTemp[21] in bs() and bsTemp[16][16] in bspline(): the largest
\* degrees the evaluations have room for
MaxPixelDegree == 20
MaxTableDegree == 15

\* PixelCorrection::correct, as the numerator over c.denom
correct(c, depth) == depth * c.scale + c.offset

\* the coefficient values of the control points of the files
ControlPointPatterns == {"identity", "constant", "ramp"}
PatternPoint(pattern, i) ==
  CASE pattern = "identity" -> PixelCorrection(1, 0)
    [] pattern = "constant" -> PixelCorrection(2, 1)
    [] pattern = "ramp"     -> PixelCorrection(1 + (i % 2), i % 3)

RecordOf(degree, numSegments, pattern) ==
  <<degree, numSegments[1], numSegments[2]>> \o
    [k \in 1 .. 2 * NumControlPoints(degree, numSegments) |->
       IF k % 2 = 1 THEN PatternPoint(pattern, (k + 1) \div 2).scale
                    ELSE PatternPoint(pattern, k \div 2).offset]

\* the files and streams read: complete records of degree 0 and 1, one of
\* degree 21, one followed by more of the stream, and one cut short
DepthCorrectionFiles ==
  {RecordOf(d, <<sx, sy>>, p) :
     d \in {0, 1}, sx \in {1, 2}, sy \in {1, 2}, p \in ControlPointPatterns}
  \cup {RecordOf(21, <<1, 1>>, "identity"),
        RecordOf(1, <<1, 2>>, "ramp") \o <<7, 7>>,
        SubSeq(RecordOf(1, <<2, 1>>, "ramp"), 1, 6)}

\* DepthCorrectionTool: degree(3),numSegments(12,9), line 122
ToolDegree == 3
ToolNumSegments == <<12, 9>>

DepthCorrectionInit ==
  /\ depthCorrectionFile \in DepthCorrectionFiles
  /\ dcPos = 0
  /\ dc = NoObject
  /\ dcPc = "start"
  /\ writtenFile = <<>>
  /\ pixelCorrection = NoObject
  /\ depthCorrection = NoObject
  /\ toolCoefficients = <<>>

\* DepthCorrectionTool::buttonCallback, lines 257-286: the solved
\* coefficients are interleaved and written behind the three header words
DepthCorrectionToolWrites(pattern) ==
  /\ dcPc = "start"
  /\ toolCoefficients = <<>>
  /\ LET numControlPoints == NumControlPoints(ToolDegree, ToolNumSegments)
         bsplineCoeffs == [i \in 1 .. numControlPoints |-> PatternPoint(pattern, i)]
         correctionCoefficients ==
           [k \in 1 .. 2 * numControlPoints |->
              IF k % 2 = 1 THEN bsplineCoeffs[(k + 1) \div 2].scale
                           ELSE bsplineCoeffs[k \div 2].offset]
     IN /\ toolCoefficients' = bsplineCoeffs
        /\ depthCorrectionFile' =
             <<ToolDegree, ToolNumSegments[1], ToolNumSegments[2]>>
               \o correctionCoefficients
  /\ UNCHANGED <<dcPos, dc, dcPc, writtenFile, pixelCorrection, depthCorrection>>
  /\ UNCHANGED nonDcVars

\* Kinect::FrameSource::DepthCorrection dc(*depthCorrectionFile)
ReadDepthCorrection ==
  /\ dcPc = "start"
  /\ dc' = DepthCorrectionFromFile(depthCorrectionFile)
  /\ IF dc' = NoObject
       THEN dcPc' = "threw" /\ dcPos' = Len(depthCorrectionFile)
       ELSE dcPc' = "read" /\ dcPos' = WordsOf(dc')
  /\ UNCHANGED <<depthCorrectionFile, writtenFile, pixelCorrection,
                 depthCorrection, toolCoefficients>>
  /\ UNCHANGED nonDcVars

\* dc.write(file)
WriteDepthCorrection ==
  /\ dcPc = "read"
  /\ writtenFile' = DepthCorrectionWrite(dc)
  /\ UNCHANGED <<depthCorrectionFile, dcPos, dc, dcPc, pixelCorrection,
                 depthCorrection, toolCoefficients>>
  /\ UNCHANGED nonDcVars

\* dc.getPixelCorrection(pixel,frameSize)
EvaluatePixel(pixel) ==
  /\ dcPc = "read"
  /\ dc.degree <= MaxPixelDegree
  /\ pixelCorrection' = getPixelCorrection(dc, pixel, DepthCorrectionFrameSize)
  /\ UNCHANGED <<depthCorrectionFile, dcPos, dc, dcPc, writtenFile,
                 depthCorrection, toolCoefficients>>
  /\ UNCHANGED nonDcVars

\* ProjectorBase::setDepthCorrection(&dc), lines 71-82
setDepthCorrection ==
  /\ dcPc = "read"
  /\ dc.degree <= MaxTableDegree
  /\ depthCorrection' = getPixelCorrectionTable(dc, DepthCorrectionFrameSize)
  /\ UNCHANGED <<depthCorrectionFile, dcPos, dc, dcPc, writtenFile,
                 pixelCorrection, toolCoefficients>>
  /\ UNCHANGED nonDcVars

\* an evaluation with a degree the temporaries have no room for writes
\* outside them: the process dies or goes on with any coefficients
UndefinedCorrections ==
  {[scale |-> s, offset |-> o, denom |-> 1] : s \in {0, 1}, o \in {0, 1}}

EvaluateOutOfBounds ==
  /\ dcPc = "read"
  /\ dc.degree > MaxTableDegree
  /\ \/ dcPc' = "crashed" /\ UNCHANGED depthCorrection
     \/ /\ depthCorrection' \in [DepthCorrectionPixels -> UndefinedCorrections]
        /\ UNCHANGED dcPc
  /\ UNCHANGED <<depthCorrectionFile, dcPos, dc, writtenFile, pixelCorrection,
                 toolCoefficients>>
  /\ UNCHANGED nonDcVars

DepthCorrectionToolPatterns == ControlPointPatterns

DepthCorrectionNext ==
  \/ \E pattern \in DepthCorrectionToolPatterns : DepthCorrectionToolWrites(pattern)
  \/ ReadDepthCorrection
  \/ WriteDepthCorrection
  \/ \E pixel \in DepthCorrectionPixels : EvaluatePixel(pixel)
  \/ setDepthCorrection
  \/ EvaluateOutOfBounds

InitDepthCorrection ==
  /\ MuxIdle
  /\ FrameBufferInit /\ BackgroundViewerInit /\ RawKinectViewerInit
  /\ TiePointToolInit
  /\ CameraInit
  /\ ConstructorReturned
  /\ LateInit
  /\ ColorBackgroundInit
  /\ OrbbecSDKContextInit
  /\ ProjectorBaseIdle
  /\ DepthCorrectionInit
  /\ StreamHeaderIdle
  /\ CompressDepthFileInit

SpecDepthCorrection == InitDepthCorrection /\ [][DepthCorrectionNext]_vars

Identity(c) == \A d \in 0 .. MaxValue : correct(c, d) = d * c.denom

\* C25: a DepthCorrection of degree 0, whatever its segment counts and
\* control points and wherever it was read from, corrects every pixel with
\* the identity: single-pixel and full-table evaluation both give scale 1
\* and offset 0, so that correct(d) = d for every depth.
C25_DegreeZeroIsIdentity ==
  (dcPc = "read" /\ dc.degree = 0) =>
    /\ pixelCorrection # NoObject => Identity(pixelCorrection)
    /\ depthCorrection # NoObject =>
         \A pixel \in DepthCorrectionPixels : Identity(depthCorrection[pixel])

(* ---- the array elements the two evaluations read and write ---- *)

\* float bsTemp[21] and PixelCorrection bsTemp[16][16]: the number of
\* elements along each dimension
BsTempSize == MaxPixelDegree + 1
BsplineTempSize == MaxTableDegree + 1

\* bs(i,n,x), lines 109-125: the elements of bsTemp it reads or writes at
\* x = num/unit, none if x lies outside the support
BsTempIndices(i, n, num, unit) ==
  IF num < i * unit \/ num >= (i + n + 1) * unit
    THEN {}
    ELSE (0 .. n) \cup UNION {{j, j + 1} : j \in 0 .. (n - 1)}

\* getPixelCorrection(pixel,frameSize), lines 129-156: the elements of
\* bsTemp used by its calls of bs, and the control points cpPtr runs over
PixelAccess(object, pixel, frameSize) ==
  LET id == object.degree
      maxi == object.numSegments[2] + id
      maxj == object.numSegments[1] + id
      dx == SplineNum(pixel[1], object.numSegments[1])
      dy == SplineNum(pixel[2], object.numSegments[2])
  IN [at |-> pixel,
      bs |-> UNION ({BsTempIndices(i - id, id, dy, 2 * frameSize[2]) : i \in 0 .. maxi - 1}
                    \cup {BsTempIndices(j - id, id, dx, 2 * frameSize[1]) : j \in 0 .. maxj - 1}),
      bspline |-> {},
      controlPoints |-> 0 .. (maxi * maxj - 1)]

\* bspline(degree,numSegments,controlPoints,x,y), lines 166-204: the row and
\* column indices of bsTemp it uses, and the control points it copies
BsplineAccess(object, dx, dy, ux, uy) ==
  LET i0 == dy \div uy
      j0 == dx \div ux
      degree == object.degree
      sds == {degree - ni : ni \in 0 .. degree - 1}
  IN [bsTemp |-> (0 .. degree)
                   \cup UNION {{j + 1 : j \in 0 .. sd - 1} : sd \in sds}
                   \cup UNION {0 .. sd : sd \in sds},
      controlPoints |->
        {(i0 + i) * (object.numSegments[1] + degree) + (j0 + j) :
           i \in 0 .. degree, j \in 0 .. degree}]

\* getPixelCorrection(frameSize), lines 208-225: bspline at every pixel
TableAccess(object, frameSize) ==
  LET at(pixel) == BsplineAccess(object,
                                 SplineNum(pixel[1], object.numSegments[1]),
                                 SplineNum(pixel[2], object.numSegments[2]),
                                 2 * frameSize[1], 2 * frameSize[2])
      pixels == (0 .. frameSize[1] - 1) \X (0 .. frameSize[2] - 1)
  IN [at |-> "table",
      bs |-> {},
      bspline |-> UNION {at(pixel).bsTemp : pixel \in pixels},
      controlPoints |-> UNION {at(pixel).controlPoints : pixel \in pixels}]

\* the objects evaluated: every degree the reader is meant to accept
ScratchObjects ==
  {[degree |-> d, numSegments |-> ns] :
     d \in 0 .. MaxPixelDegree, ns \in {<<1, 1>>, <<2, 1>>}}

ScratchInit ==
  /\ scratchObject \in ScratchObjects
  /\ scratchAccess = NoAccess

\* dc.getPixelCorrection(pixel,frameSize) is called
EvaluateAtPixel(pixel) ==
  /\ scratchAccess' = PixelAccess(scratchObject, pixel, DepthCorrectionFrameSize)
  /\ UNCHANGED scratchObject
  /\ UNCHANGED nonScVars

\* dc.getPixelCorrection(frameSize) is called
EvaluateTable ==
  /\ scratchAccess' = TableAccess(scratchObject, DepthCorrectionFrameSize)
  /\ UNCHANGED scratchObject
  /\ UNCHANGED nonScVars

ScratchNext ==
  \/ \E pixel \in DepthCorrectionPixels : EvaluateAtPixel(pixel)
  \/ EvaluateTable

\* every component but the later ones, constructed and idle
EarlyIdle ==
  /\ MuxIdle
  /\ FrameBufferInit /\ BackgroundViewerInit /\ RawKinectViewerInit
  /\ TiePointToolInit
  /\ CameraInit
  /\ ConstructorReturned
  /\ ColorBackgroundInit
  /\ OrbbecSDKContextInit
  /\ ProjectorBaseIdle
  /\ DepthCorrectionIdle
  /\ StreamHeaderIdle
  /\ CompressDepthFileInit

InitScratch == EarlyIdle /\ LateButScratchInit /\ ScratchInit

SpecScratch == InitScratch /\ [][ScratchNext]_vars

\* C38: for every degree from 0 to 20 and every pixel, the evaluation at a
\* pixel and the evaluation of the whole table use only elements inside
\* bs's bsTemp, inside bspline's bsTemp and inside the control point array.
C38_EvaluationWithinBounds ==
  /\ scratchAccess.bs \subseteq 0 .. (BsTempSize - 1)
  /\ scratchAccess.bspline \subseteq 0 .. (BsplineTempSize - 1)
  /\ scratchAccess.controlPoints \subseteq
       0 .. (NumControlPoints(scratchObject.degree, scratchObject.numSegments) - 1)

\* C26: reading a record whose degree field is above 20 fails, and no
\* DepthCorrection object of such a degree is produced or evaluated.
C26_DegreeAbove20Rejected ==
  /\ (dcPc # "start" /\ depthCorrectionFile[1] > 20) =>
       dcPc = "threw" /\ dc = NoObject
  /\ dc # NoObject => dc.degree <= 20

\* C27: reading a record of degree d with Sx by Sy segments and writing it
\* back gives exactly the words read, 12 + 8*(Sx+d)*(Sy+d) bytes in the
\* order degree, Sx, Sy, then scale and offset of each control point in
\* row-major order; the file DepthCorrectionTool writes is consumed to its
\* end and gives back the tool's degree, segment counts and coefficients.
C27_ReadWriteRoundTrip ==
  /\ (dcPc = "read" /\ writtenFile # <<>>) =>
       /\ writtenFile = SubSeq(depthCorrectionFile, 1, dcPos)
       /\ 4 * Len(writtenFile) =
            12 + 8 * (depthCorrectionFile[2] + depthCorrectionFile[1])
                   * (depthCorrectionFile[3] + depthCorrectionFile[1])
       /\ writtenFile[1] = dc.degree
       /\ writtenFile[2] = dc.numSegments[1]
       /\ writtenFile[3] = dc.numSegments[2]
       /\ \A i \in 0 .. dc.numSegments[2] + dc.degree - 1 :
            \A j \in 0 .. dc.numSegments[1] + dc.degree - 1 :
              LET k == i * (dc.numSegments[1] + dc.degree) + j
              IN /\ writtenFile[3 + 2 * k + 1] = dc.controlPoints[k + 1].scale
                 /\ writtenFile[3 + 2 * k + 2] = dc.controlPoints[k + 1].offset
  /\ (dcPc # "start" /\ toolCoefficients # <<>>) =>
       /\ dcPc = "read"
       /\ dcPos = Len(depthCorrectionFile)
       /\ dc.degree = ToolDegree
       /\ dc.numSegments = ToolNumSegments
       /\ dc.controlPoints = toolCoefficients

C27_Witness ==
  /\ dcPc = "read"
  /\ toolCoefficients # <<>>
  /\ writtenFile # <<>>
  /\ \E k \in DOMAIN toolCoefficients :
       toolCoefficients[k] # toolCoefficients[1]
  /\ toolCoefficients[1].scale # toolCoefficients[1].offset

(***************************************************************************)
(* MultiplexedFrameSource::Stream::Stream: the version gates of the        *)
(* sub-stream header.  The header on the pipe is a sequence of typed       *)
(* items; a read<T> takes the next item and sizeof(T) bytes.               *)
(***************************************************************************)

Item(t, v) == [t |-> t, v |-> v]

SizeOf(t) ==
  CASE t = "u8" -> 1
    [] t = "u32" -> 4
    [] t = "f32" -> 4
    [] t = "f64" -> 8

Doubles(first, n) == [k \in 1 .. n |-> Item("f64", first + k - 1)]

\* the values the server sends for the blocks of doubles
BlockBase(block) ==
  CASE block = "colorLensDistortion" -> 100
    [] block = "depthLensDistortion" -> 200
    [] block = "colorProjection" -> 300
    [] block = "depthProjection" -> 400

\* the header of one sub-stream as the server lays it out for the color and
\* depth format versions of the fields
HeaderItems(f) ==
  <<Item("u32", f.color), Item("u32", f.depth)>>
  \o (IF f.depth >= 4
        THEN LET record == RecordOf(f.degree, <<1, 2>>, "ramp")
             IN [k \in 1 .. Len(record) |->
                   Item(IF k <= 3 THEN "u32" ELSE "f32", record[k])]
      ELSE IF f.depth >= 2
        THEN <<Item("u8", f.flag)>>
             \o (IF f.flag # 0
                   THEN <<Item("u32", f.size[1]), Item("u32", f.size[2])>>
                        \o [k \in 1 .. 2 * f.size[1] * f.size[2] |-> Item("f32", 9)]
                   ELSE <<>>)
      ELSE <<>>)
  \o (IF f.depth >= 3 THEN <<Item("u8", f.lossy)>> ELSE <<>>)
  \o (IF f.color >= 2 THEN Doubles(BlockBase("colorLensDistortion"), 10) ELSE <<>>)
  \o (IF f.depth >= 6 THEN Doubles(BlockBase("depthLensDistortion"), 10)
      ELSE IF f.depth = 5 THEN Doubles(BlockBase("depthLensDistortion"), 7)
      ELSE <<>>)
  \o Doubles(BlockBase("colorProjection"), 16)
  \o Doubles(BlockBase("depthProjection"), 16)

ColorVersions == {1, 2}
DepthVersions == 0 .. 7

\* the headers a server sends: fields a version does not carry are left 0
StreamHeaders ==
  {f \in [color : ColorVersions, depth : DepthVersions, flag : {0, 1},
          size : {<<0, 0>>, <<1, 1>>, <<2, 1>>}, lossy : {0, 1},
          degree : {0, 1}] :
     /\ (f.depth < 2 \/ f.depth >= 4) => f.flag = 0
     /\ f.flag = 0 <=> f.size = <<0, 0>>
     /\ f.depth < 3 => f.lossy = 0
     /\ f.depth < 4 => f.degree = 0}

StreamHeaderInit ==
  /\ headerFields \in StreamHeaders
  /\ headerSource = HeaderItems(headerFields)
  /\ sourcePos = 0
  /\ sourceBytes = 0
  /\ streamFormatVersions = <<0, 0>>
  /\ streamDepthCorrection = NoObject
  /\ depthIsLossy = FALSE
  /\ streamIps = <<>>
  /\ streamPc = "start"
  /\ clonedCorrection = NoObject

\* the value of the item a read takes, 0 behind the end of the header
ValueAt(src, pos) == IF pos <= Len(src) THEN src[pos].v ELSE 0

\* the values of n items from pos on
ValuesAt(src, pos, n) == [k \in 1 .. n |-> ValueAt(src, pos + k - 1)]

NoLensDistortion == <<0, 0, 0, 0, 0, 0, 0, 0, 0, 0>>

\* IntrinsicParameters::readLensDistortion, FrameSource.cpp lines 231-264:
\* the parameter vector (centre, six radial, two tangential coefficients)
\* and the number of doubles read
readLensDistortion(src, pos, newFormat) ==
  [pv |-> ValuesAt(src, pos, 5)
            \o (IF newFormat THEN ValuesAt(src, pos + 5, 3) ELSE <<0, 0, 0>>)
            \o ValuesAt(src, pos + (IF newFormat THEN 8 ELSE 5), 2),
   read |-> IF newFormat THEN 10 ELSE 7]

NewDepthFormatAlways(version) == TRUE
\* streamFormatVersions[1]>=6, line 89
NewDepthFormat(version) == version >= 6

\* the reads of Stream::Stream, lines 53-94, from the first item of the
\* header on: each stage gives the items and bytes consumed so far
ReadStreamHeader(src) ==
  LET color == ValueAt(src, 1)
      depth == ValueAt(src, 2)
      p1 == 2
      b1 == 8
      rest == [k \in 1 .. Len(src) - p1 |-> src[p1 + k].v]
      spline == IF depth >= 4 THEN DepthCorrectionFromFile(rest) ELSE NoObject
      hasFlag == depth < 4 /\ depth >= 2
      legacy == hasFlag /\ ValueAt(src, p1 + 1) # 0
      volume == IF legacy THEN ValueAt(src, p1 + 2) * ValueAt(src, p1 + 3) ELSE 0
      p2 == IF depth >= 4 THEN p1 + WordsOf(spline)
            ELSE IF legacy THEN p1 + 3 + 2 * volume
            ELSE IF hasFlag THEN p1 + 1
            ELSE p1
      b2 == IF depth >= 4 THEN b1 + 4 * WordsOf(spline)
            ELSE IF legacy THEN b1 + 1 + 8 + 4 * 2 * volume
            ELSE IF hasFlag THEN b1 + 1
            ELSE b1
      lossy == depth >= 3 /\ ValueAt(src, p2 + 1) # 0
      p3 == IF depth >= 3 THEN p2 + 1 ELSE p2
      b3 == IF depth >= 3 THEN b2 + 1 ELSE b2
      colorLd == IF color >= 2 THEN readLensDistortion(src, p3 + 1, TRUE)
                 ELSE [pv |-> NoLensDistortion, read |-> 0]
      p4 == p3 + colorLd.read
      depthLd == IF depth >= 5
                   THEN readLensDistortion(src, p4 + 1, NewDepthFormat(depth))
                   ELSE [pv |-> NoLensDistortion, read |-> 0]
      p5 == p4 + depthLd.read
  IN [versions |-> <<color, depth>>,
      depthCorrection |->
        IF depth >= 4
          THEN IF spline.degree > 0 THEN spline ELSE NoObject
          ELSE DepthCorrectionDummy(0, <<1, 1>>),
      depthIsLossy |-> lossy,
      ips |-> [colorLensDistortion |-> colorLd.pv,
               depthLensDistortion |-> depthLd.pv,
               colorProjection |-> ValuesAt(src, p5 + 1, 16),
               depthProjection |-> ValuesAt(src, p5 + 17, 16)],
      beforeProjections |-> [pos |-> p5,
                             bytes |-> b3 + 8 * (colorLd.read + depthLd.read)],
      pos |-> p5 + 32,
      bytes |-> b3 + 8 * (colorLd.read + depthLd.read) + 8 * 32]

\* MultiplexedFrameSource::Stream::Stream, lines 42-101, up to and
\* including the projections
StreamConstructed ==
  /\ streamPc = "start"
  /\ LET result == ReadStreamHeader(headerSource)
     IN /\ streamFormatVersions' = result.versions
        /\ streamDepthCorrection' = result.depthCorrection
        /\ depthIsLossy' = result.depthIsLossy
        /\ streamIps' = result.ips
        /\ sourcePos' = result.beforeProjections.pos
        /\ sourceBytes' = result.beforeProjections.bytes
  /\ streamPc' = "read"
  /\ UNCHANGED <<headerFields, headerSource, clonedCorrection>>
  /\ UNCHANGED nonShVars

\* Stream::getDepthCorrectionParameters, lines 148-155
getDepthCorrectionParameters ==
  /\ streamPc = "read"
  /\ clonedCorrection = NoObject
  /\ streamDepthCorrection # NoObject
  /\ clonedCorrection' = streamDepthCorrection
  /\ UNCHANGED <<headerFields, headerSource, sourcePos, sourceBytes,
                 streamFormatVersions, streamDepthCorrection, depthIsLossy,
                 streamIps, streamPc>>
  /\ UNCHANGED nonShVars

StreamHeaderNext ==
  \/ StreamConstructed
  \/ getDepthCorrectionParameters

InitStreamHeader ==
  /\ MuxIdle
  /\ FrameBufferInit /\ BackgroundViewerInit /\ RawKinectViewerInit
  /\ TiePointToolInit
  /\ CameraInit
  /\ ConstructorReturned
  /\ LateInit
  /\ ColorBackgroundInit
  /\ OrbbecSDKContextInit
  /\ ProjectorBaseIdle
  /\ DepthCorrectionIdle
  /\ StreamHeaderInit
  /\ CompressDepthFileInit

SpecStreamHeader == InitStreamHeader /\ [][StreamHeaderNext]_vars

\* the bytes of the version-dependent depth fields of a header
DepthGatedBytes(f) ==
  (IF f.depth >= 4
     THEN 12 + 8 * (1 + f.degree) * (2 + f.degree)
     ELSE IF f.depth >= 2
       THEN 1 + (IF f.flag # 0 THEN 8 + 4 * 2 * f.size[1] * f.size[2] ELSE 0)
       ELSE 0)
  + (IF f.depth >= 3 THEN 1 ELSE 0)
  + (IF f.depth >= 6 THEN 80 ELSE IF f.depth = 5 THEN 56 ELSE 0)

\* C28: for every depth format version v the Stream constructor consumes
\* exactly the fields of that version: the B-spline record from v = 4, the
\* flag byte and, if it is set, the legacy buffer for v = 2 and 3, the lossy
\* byte from v = 3, the depth lens distortion from v = 5 as 7 doubles with
\* the three extended radial coefficients zero and from v = 6 as 10 doubles,
\* and nothing for v < 2, so that the two projections are read from where
\* the server put them.
C28_VersionGates ==
  streamPc = "read" =>
    LET f == headerFields
    IN /\ sourceBytes = 8 + DepthGatedBytes(f) + (IF f.color >= 2 THEN 80 ELSE 0)
       /\ sourcePos = Len(headerSource) - 32
       /\ streamIps.colorProjection =
            [k \in 1 .. 16 |-> BlockBase("colorProjection") + k - 1]
       /\ streamIps.depthProjection =
            [k \in 1 .. 16 |-> BlockBase("depthProjection") + k - 1]
       /\ depthIsLossy = (f.depth >= 3 /\ f.lossy # 0)
       /\ f.depth = 5 =>
            /\ SubSeq(streamIps.depthLensDistortion, 6, 8) = <<0, 0, 0>>
            /\ SubSeq(streamIps.depthLensDistortion, 9, 10) =
                 <<BlockBase("depthLensDistortion") + 5, BlockBase("depthLensDistortion") + 6>>
       /\ f.depth >= 6 =>
            streamIps.depthLensDistortion =
              [k \in 1 .. 10 |-> BlockBase("depthLensDistortion") + k - 1]
       /\ f.depth < 5 => streamIps.depthLensDistortion = NoLensDistortion
       /\ f.depth >= 4 =>
            (streamDepthCorrection # NoObject <=> f.degree > 0)

C28_Witness ==
  /\ streamPc = "read"
  /\ headerFields.depth = 5
  /\ headerFields.color = 2
  /\ headerFields.lossy = 1
  /\ headerFields.degree = 1
  /\ clonedCorrection # NoObject

(***************************************************************************)
(* CompressDepthFile: background capture and removal on unsigned short     *)
(* depth values.  The capture takes MaxCapture frames where the program    *)
(* takes 150.                                                              *)
(***************************************************************************)

\* conversion of an int to unsigned short
UShort(x) == (x + 65536) % 65536

\* depth values of the frames in the file
CompressDepths == {0, 1, 3, invalidDepth}
CompressFrames == [CompressPixels -> CompressDepths]

Least(a, b) == IF a < b THEN a ELSE b

\* if(*bfPtr>*dfPtr-2) *bfPtr=*dfPtr-2;  lines 79-81: the operands are
\* promoted to int, the result is converted back to unsigned short
AddToBackground(bf, df) == IF bf > df - 2 THEN UShort(df - 2) ELSE bf

\* if(*dfPtr>=*bfPtr) *dfPtr=invalidDepth;  lines 90-92
RemoveBackground(df, bf) == IF df >= bf THEN invalidDepth ELSE df

\* one turn of the loop of main(), lines 64-99, for the next frame of the
\* file: capture while numCaptureFrames>0, removal afterwards, then the
\* frame goes to the writer
ProcessDepthFrame(frame) ==
  /\ compressIn' = frame
  /\ IF numCaptureFrames > 0
       THEN /\ backgroundFrame' = [p \in CompressPixels |->
                                     AddToBackground(backgroundFrame[p], frame[p])]
            /\ numCaptureFrames' = numCaptureFrames - 1
            /\ compressOut' = frame
            /\ capturedMin' = [p \in CompressPixels |->
                                 Least(capturedMin[p], frame[p] - 2)]
            /\ backgroundRose' =
                 (backgroundRose \/ \E p \in CompressPixels :
                                      backgroundFrame'[p] > backgroundFrame[p])
       ELSE /\ compressOut' = [p \in CompressPixels |->
                                 RemoveBackground(frame[p], backgroundFrame[p])]
            /\ UNCHANGED <<backgroundFrame, numCaptureFrames, capturedMin,
                           backgroundRose>>
  /\ UNCHANGED nonCdVars

CompressDepthFileNext == \E frame \in CompressFrames : ProcessDepthFrame(frame)

InitCompressDepthFile == MuxIdle /\ NonMuxInit

SpecCompressDepthFile == InitCompressDepthFile /\ [][CompressDepthFileNext]_vars

\* C29: during and after the capture the background of every pixel is the
\* least of invalidDepth and the captured depths minus 2, for every depth
\* including 0 and 1, without wrap-around and never rising; after the
\* capture a pixel of a frame is replaced by invalidDepth exactly when its
\* depth is at least the background there, and left alone otherwise.
C29_BackgroundIsMinimum ==
  /\ \A p \in CompressPixels : backgroundFrame[p] = capturedMin[p]
  /\ ~backgroundRose
  /\ (numCaptureFrames = 0 /\ compressOut # compressIn) =>
       \A p \in CompressPixels :
         compressOut[p] = IF compressIn[p] >= backgroundFrame[p]
                            THEN invalidDepth ELSE compressIn[p]

(***************************************************************************)
(* RawKinectViewer: capture of the color background by the main thread     *)
(* (captureBackgroundCallback, removeBackgroundCallback) and its use by    *)
(* the camera thread (colorStreamingCallback).  The two threads share      *)
(* colorBackground and backgroundCaptureNumFrames without a lock, so each  *)
(* access is a step of its own.  The capture takes MaxCapture frames where *)
(* the program takes 150.                                                  *)
(***************************************************************************)

ColorPixels == {1, 2}
Channels == {1, 2, 3}

\* the color frames the camera delivers
ColorFrames ==
  {[p \in ColorPixels |-> <<1, 1, 1>>],
   [p \in ColorPixels |-> IF p = 1 THEN <<2, 2, 2>> ELSE <<1, 2, 1>>],
   [p \in ColorPixels |-> IF p = 1 THEN <<1, 2, 1>> ELSE <<2, 1, 2>>]}

\* bPtr[0][i]=255U; bPtr[1][i]=0U: the empty interval of every pixel
EmptyBackground ==
  [min |-> [p \in ColorPixels |-> <<255, 255, 255>>],
   max |-> [p \in ColorPixels |-> <<0, 0, 0>>]]

\* lines 346-356: the frame entered into the background removal buffer
EnterFrame(envelope, frame) ==
  [min |-> [p \in ColorPixels |-> [i \in Channels |->
              IF envelope.min[p][i] > frame[p][i]
                THEN frame[p][i] ELSE envelope.min[p][i]]],
   max |-> [p \in ColorPixels |-> [i \in Channels |->
              IF envelope.max[p][i] < frame[p][i]
                THEN frame[p][i] ELSE envelope.max[p][i]]]]

\* lines 372-374: isBackground=bPtr[0][i]<=(*fPtr)[i]&&(*fPtr)[i]<=bPtr[1][i]
\* for all three channels
IsBackground(envelope, frame, p) ==
  \A i \in Channels :
    envelope.min[p][i] <= frame[p][i] /\ frame[p][i] <= envelope.max[p][i]

\* lines 364-383: the background-removed frame
RemoveColorBackground(envelope, frame) ==
  [p \in ColorPixels |->
     IF IsBackground(envelope, frame, p) THEN <<0, 0, 0>> ELSE frame[p]]

\* captureBackgroundCallback, lines 553-563: the buffer is allocated if
\* there is none and every interval is set to empty
CaptureBackgroundReset ==
  /\ capturePc = "idle"
  /\ colorBackground' = EmptyBackground
  /\ capturePc' = "count"
  /\ UNCHANGED <<backgroundCaptureNumFrames, colorCbPc, colorIn, countRegister,
                 colorPosted, sinceRequest, expectedEnvelope, nullDereferenced>>
  /\ UNCHANGED <<paused, colorBackgroundUnchanged>>

\* captureBackgroundCallback, line 564: backgroundCaptureNumFrames=150
CaptureBackgroundCount ==
  /\ capturePc = "count"
  /\ backgroundCaptureNumFrames' = MaxCapture
  /\ capturePc' = "idle"
  /\ sinceRequest' = 0
  /\ expectedEnvelope' = EmptyBackground
  /\ UNCHANGED <<colorBackground, colorCbPc, colorIn, countRegister,
                 colorPosted, nullDereferenced>>
  /\ UNCHANGED <<paused, colorBackgroundUnchanged>>

\* removeBackgroundCallback with cbData->set false, lines 569-580
RemoveBackgroundOff ==
  /\ capturePc = "idle"
  /\ colorBackground # NullBackground
  /\ colorBackground' = NullBackground
  /\ UNCHANGED <<backgroundCaptureNumFrames, capturePc, colorCbPc, colorIn,
                 countRegister, colorPosted, sinceRequest, expectedEnvelope,
                 nullDereferenced>>
  /\ UNCHANGED <<paused, colorBackgroundUnchanged>>

\* colorStreamingCallback, lines 298-343: the tests of paused and of
\* backgroundCaptureNumFrames>0
ColorFrameArrives(frame) ==
  /\ colorCbPc = "idle"
  /\ IF paused
       THEN UNCHANGED <<colorCbPc, colorIn, sinceRequest, expectedEnvelope>>
       ELSE /\ colorIn' = frame
            /\ colorCbPc' = IF backgroundCaptureNumFrames > 0
                              THEN "enter" ELSE "remove"
            /\ sinceRequest' = IF sinceRequest \in 0 .. MaxCapture
                                 THEN sinceRequest + 1 ELSE sinceRequest
            /\ expectedEnvelope' =
                 IF sinceRequest \in 0 .. MaxCapture - 1
                   THEN EnterFrame(expectedEnvelope, frame)
                   ELSE expectedEnvelope
  /\ UNCHANGED <<colorBackground, backgroundCaptureNumFrames, capturePc,
                 countRegister, colorPosted, nullDereferenced>>
  /\ UNCHANGED <<paused, colorBackgroundUnchanged>>

\* lines 345-356: the loop over the buffer, which writes through a null
\* pointer if the buffer was deleted in the meantime
EnterIntoBackground ==
  /\ colorCbPc = "enter"
  /\ IF colorBackground = NullBackground
       THEN /\ nullDereferenced' = TRUE
            /\ colorCbPc' = "crashed"
            /\ UNCHANGED colorBackground
       ELSE /\ colorBackground' = EnterFrame(colorBackground, colorIn)
            /\ colorCbPc' = "load"
            /\ UNCHANGED nullDereferenced
  /\ UNCHANGED <<backgroundCaptureNumFrames, capturePc, colorIn, countRegister,
                 colorPosted, sinceRequest, expectedEnvelope>>
  /\ UNCHANGED <<paused, colorBackgroundUnchanged>>

\* line 358, --backgroundCaptureNumFrames: the load
DecrementLoad ==
  /\ colorCbPc = "load"
  /\ countRegister' = backgroundCaptureNumFrames
  /\ colorCbPc' = "store"
  /\ UNCHANGED <<colorBackground, backgroundCaptureNumFrames, capturePc, colorIn,
                 colorPosted, sinceRequest, expectedEnvelope, nullDereferenced>>
  /\ UNCHANGED <<paused, colorBackgroundUnchanged>>

\* line 358, --backgroundCaptureNumFrames: the store
DecrementStore ==
  /\ colorCbPc = "store"
  /\ backgroundCaptureNumFrames' = countRegister - 1
  /\ colorCbPc' = "remove"
  /\ UNCHANGED <<colorBackground, capturePc, colorIn, countRegister,
                 colorPosted, sinceRequest, expectedEnvelope, nullDereferenced>>
  /\ UNCHANGED <<paused, colorBackgroundUnchanged>>

\* lines 361-390: the frame is posted, background-removed if there is a
\* buffer
RemoveAndPost ==
  /\ colorCbPc = "remove"
  /\ colorPosted' =
       [frame |-> IF colorBackground # NullBackground
                    THEN RemoveColorBackground(colorBackground, colorIn)
                    ELSE colorIn,
        from |-> colorIn,
        after |-> sinceRequest]
  /\ colorCbPc' = "idle"
  /\ UNCHANGED <<colorBackground, backgroundCaptureNumFrames, capturePc, colorIn,
                 countRegister, sinceRequest, expectedEnvelope, nullDereferenced>>
  /\ UNCHANGED <<paused, colorBackgroundUnchanged>>

ColorBackgroundNext ==
  \/ PauseTool
  \/ CaptureBackgroundReset
  \/ CaptureBackgroundCount
  \/ RemoveBackgroundOff
  \/ \E frame \in ColorFrames : ColorFrameArrives(frame)
  \/ EnterIntoBackground
  \/ DecrementLoad
  \/ DecrementStore
  \/ RemoveAndPost

InitColorBackground == MuxIdle /\ NonMuxInit

SpecColorBackground == InitColorBackground /\ [][ColorBackgroundNext]_vars

\* C36: the UI thread's callbacks allocate, re-initialise or free the
\* envelope buffer and reset the capture counter only while the color
\* streaming callback is not between its first test of the counter and the
\* post of its frame, the stretch in which it reads and updates them.
C36_ColorBackgroundNotChangedUnderCallback ==
  [][(CaptureBackgroundReset \/ CaptureBackgroundCount \/ RemoveBackgroundOff)
       => colorCbPc = "idle"]_vars

\* C30: after a capture of N frames is requested, exactly the next N color
\* frames received while not paused widen the envelope of every pixel and
\* channel, which starts empty, and later frames leave it alone; a frame
\* received after the capture has finished is posted with a pixel zeroed
\* exactly when all three channels lie inside the pixel's envelope, and
\* copied otherwise.
C30_ColorBackgroundCapture ==
  /\ ~nullDereferenced
  /\ (capturePc = "idle" /\ colorCbPc = "idle" /\ sinceRequest >= 0
        /\ colorBackground # NullBackground) =>
       /\ colorBackground = expectedEnvelope
       /\ backgroundCaptureNumFrames =
            IF sinceRequest < MaxCapture THEN MaxCapture - sinceRequest ELSE 0
  /\ (capturePc = "idle" /\ colorCbPc = "idle" /\ sinceRequest > MaxCapture
        /\ colorBackground # NullBackground /\ colorPosted.after > MaxCapture) =>
       \A p \in ColorPixels :
         colorPosted.frame[p] =
           IF \A i \in Channels :
                /\ expectedEnvelope.min[p][i] <= colorPosted.from[p][i]
                /\ colorPosted.from[p][i] <= expectedEnvelope.max[p][i]
             THEN <<0, 0, 0>>
             ELSE colorPosted.from[p]

(***************************************************************************)
(* BackgroundViewer: the serial number in the name of the background file  *)
(* and the auxiliary files named after it.  Strings are sequences of       *)
(* characters; the terminating NUL is the end of the sequence.             *)
(***************************************************************************)

BackgroundPrefix == <<"B", "a", "c", "k", "g", "r", "o", "u", "n", "d", "-">>
BackgroundSuffix == <<".", "b", "a", "c", "k", "g", "r", "o", "u", "n", "d">>
DepthCorrectionPrefix ==
  <<"D", "e", "p", "t", "h", "C", "o", "r", "r", "e", "c", "t", "i", "o", "n", "-">>
IntrinsicParametersPrefix ==
  <<"I", "n", "t", "r", "i", "n", "s", "i", "c", "P", "a", "r", "a", "m", "e",
    "t", "e", "r", "s", "-">>
DatSuffix == <<".", "d", "a", "t">>

\* the string from character i on
From(str, i) == SubSeq(str, i, Len(str))

\* lines 310-313: the index of the first character behind the last '/'
FileNameStart(path) ==
  LET slashes == {i \in 1 .. Len(path) : path[i] = "/"}
  IN IF slashes = {} THEN 1
     ELSE 1 + CHOOSE i \in slashes : \A j \in slashes : j <= i

\* strncmp(s,prefix,n)==0 for a prefix of n characters
StartsWith(str, prefix) ==
  Len(str) >= Len(prefix) /\ SubSeq(str, 1, Len(prefix)) = prefix

\* lines 317-318: for(serialEnd=serialStart;*serialEnd!='\0'&&*serialEnd!='.';
\* ++serialEnd): the index of the first '.' from serialStart on, or of the end
SerialEnd(str, serialStart) ==
  LET dots == {i \in serialStart .. Len(str) : str[i] = "."}
  IN IF dots = {} THEN Len(str) + 1
     ELSE CHOOSE i \in dots : \A j \in dots : i <= j

\* lines 308-322: the serial number taken from the path
ExtractSerialNumber(path) ==
  LET fileName == From(path, FileNameStart(path))
  IN IF StartsWith(fileName, BackgroundPrefix)
       THEN LET serialStart == Len(BackgroundPrefix) + 1
                serialEnd == SerialEnd(fileName, serialStart)
            IN IF serialEnd # serialStart
                    /\ From(fileName, serialEnd) = BackgroundSuffix
                 THEN SubSeq(fileName, serialStart, serialEnd - 1)
                 ELSE <<>>
       ELSE <<>>

\* std::string(backgroundFileName,fileNameStart) with prefix, serial and
\* ".dat" appended, lines 331-334 and 355-358
AuxiliaryFileName(path, prefix, serial) ==
  SubSeq(path, 1, FileNameStart(path) - 1) \o prefix \o serial \o DatSuffix

\* the paths given on the command line
SerialChars == {"7", "x", "."}
Serials ==
  {<<>>} \cup {<<a>> : a \in SerialChars}
         \cup {<<a, b>> : a \in SerialChars, b \in SerialChars}
Directories == {<<>>, <<"d", "/">>, <<".", ".", "/", "B", "/">>}
NameHeads == {BackgroundPrefix, <<"b">> \o Tail(BackgroundPrefix)}
NameTails == {BackgroundSuffix, BackgroundSuffix \o <<"2">>,
              SubSeq(BackgroundSuffix, 1, Len(BackgroundSuffix) - 1)}
BackgroundFileNames ==
  {[dir |-> d, name |-> h \o s \o t] :
     d \in Directories, h \in NameHeads, s \in Serials, t \in NameTails}

LoaderInit ==
  /\ backgroundFileName \in BackgroundFileNames
  /\ serialNumber = <<>>
  /\ openedFiles = <<>>
  /\ loaderPc = "start"

PathOf(file) == file.dir \o file.name

\* BackgroundViewer::BackgroundViewer, lines 308-322
ExtractSerial ==
  /\ loaderPc = "start"
  /\ serialNumber' = ExtractSerialNumber(PathOf(backgroundFileName))
  /\ loaderPc' = "depthCorrection"
  /\ UNCHANGED <<backgroundFileName, openedFiles>>
  /\ UNCHANGED nonBlVars

\* lines 327-349: the depth correction file is opened if there is a serial
LoadDepthCorrectionFile ==
  /\ loaderPc = "depthCorrection"
  /\ openedFiles' =
       IF serialNumber # <<>>
         THEN Append(openedFiles,
                AuxiliaryFileName(PathOf(backgroundFileName),
                                  DepthCorrectionPrefix, serialNumber))
         ELSE openedFiles
  /\ loaderPc' = "intrinsic"
  /\ UNCHANGED <<backgroundFileName, serialNumber>>
  /\ UNCHANGED nonBlVars

\* lines 351-361: the intrinsic parameter file is opened if there is a serial
LoadIntrinsicParameterFile ==
  /\ loaderPc = "intrinsic"
  /\ openedFiles' =
       IF serialNumber # <<>>
         THEN Append(openedFiles,
                AuxiliaryFileName(PathOf(backgroundFileName),
                                  IntrinsicParametersPrefix, serialNumber))
         ELSE openedFiles
  /\ loaderPc' = "done"
  /\ UNCHANGED <<backgroundFileName, serialNumber>>
  /\ UNCHANGED nonBlVars

LoaderNext ==
  \/ ExtractSerial
  \/ LoadDepthCorrectionFile
  \/ LoadIntrinsicParameterFile

InitLoader ==
  /\ MuxIdle
  /\ FrameBufferInit /\ BackgroundViewerInit /\ RawKinectViewerInit
  /\ TiePointToolInit
  /\ CameraInit
  /\ ConstructorReturned
  /\ LoaderInit
  /\ LateButLoaderInit
  /\ ColorBackgroundInit
  /\ OrbbecSDKContextInit
  /\ ProjectorBaseIdle
  /\ DepthCorrectionIdle
  /\ StreamHeaderIdle
  /\ CompressDepthFileInit

SpecLoader == InitLoader /\ [][LoaderNext]_vars

\* the serial of a file name of the form Background-<serial>.background
\* with a non-empty serial, empty for every other name
SerialOf(name) ==
  IF /\ Len(name) > Len(BackgroundPrefix) + Len(BackgroundSuffix)
     /\ SubSeq(name, 1, Len(BackgroundPrefix)) = BackgroundPrefix
     /\ From(name, Len(name) - Len(BackgroundSuffix) + 1) = BackgroundSuffix
    THEN SubSeq(name, Len(BackgroundPrefix) + 1, Len(name) - Len(BackgroundSuffix))
    ELSE <<>>

\* C31: for a path whose last component is Background-<serial>.background
\* with a non-empty serial of any characters the loader takes exactly that
\* serial and opens DepthCorrection-<serial>.dat and
\* IntrinsicParameters-<serial>.dat in the directory of the path; for every
\* other name it takes no serial and opens no auxiliary file.
C31_SerialBetweenPrefixAndSuffix ==
  LET serial == SerialOf(backgroundFileName.name)
      dir == backgroundFileName.dir
  IN /\ loaderPc # "start" => serialNumber = serial
     /\ loaderPc = "done" =>
          openedFiles =
            IF serial = <<>> THEN <<>>
            ELSE <<dir \o DepthCorrectionPrefix \o serial \o DatSuffix,
                   dir \o IntrinsicParametersPrefix \o serial \o DatSuffix>>

(***************************************************************************)
(* Properties of the construction of the multiplexed source                *)
(***************************************************************************)

\* readers and streams the constructor created
ReadersCreated ==
  {r \in DOMAIN readerReleased :
     IF r[1] = "color" THEN colorFrameReaders[r[2]] = 1
                       ELSE depthFrameReaders[r[2]] = 1}

\* C15: when the initialisation of a sub-stream fails during construction,
\* the constructor throws, the receiving thread is never started, every
\* frame reader and every completely constructed Stream is deleted exactly
\* once, and the clean-up never brings numStreamsAlive to 0, so that no
\* Stream destructor deletes the source under construction.
C15_FailedStreamCleanUp ==
  ~allStreamsOk =>
    /\ rpc = "notStarted"
    /\ ctorPc \in {"newStream", "cleanup", "failed"}
    /\ ownerDeleted = 0
    /\ ctorPc \in {"cleanup", "failed"} => numStreamsAlive > 0
    /\ \A r \in DOMAIN readerReleased : readerReleased[r] <= 1
    /\ \A i \in StreamIds(numStreams) : streamReleased[i] <= 1
    /\ ctorPc = "failed" =>
         /\ ctorError = "Error while initializing component streams"
         /\ \A r \in DOMAIN readerReleased :
              readerReleased[r] = (IF r \in ReadersCreated THEN 1 ELSE 0)
         /\ \A i \in StreamIds(numStreams) :
              /\ streamReleased[i] = (IF i \in streamCreated THEN 1 ELSE 0)
              /\ ~streams[i]

C15_Witness ==
  /\ ctorPc = "failed"
  /\ ~allStreamsOk
  /\ streamCreated # {}
  /\ \E i \in StreamIds(numStreams) :
       i \notin streamCreated /\ colorFrameReaders[i] = 1


\* C17: the handshake.  The client has written its marker 0x12345678 and
\* protocol version 1 before it reads a word; it reads byte-swapped from
\* then on exactly when the server's marker reads 0x78563412, and unswapped
\* when it reads 0x12345678, so that what a server of either byte order
\* sends afterwards arrives as sent; any other marker makes the constructor
\* throw before a stream is created and before the receiving thread starts.
C17_Handshake ==
  /\ wordsRead > 0 => written = <<EndiannessMarker, ProtocolVersion>>
  /\ ctorPc \notin {"write", "readMarker"} =>
       /\ swapOnRead <=> endiannessFlag = SwappedMarker
       /\ endiannessFlag = EndiannessMarker => ~swapOnRead
       /\ endiannessFlag \notin {EndiannessMarker, SwappedMarker} =>
            /\ ctorPc = "failed"
            /\ ctorError = "Server has unrecognized endianness"
            /\ wordsRead = 1
            /\ streamHeadersRead = 0
            /\ streamCreated = {}
            /\ numStreamsAlive = 0
            /\ rpc = "notStarted"
       /\ endiannessFlag \in {EndiannessMarker, SwappedMarker} =>
            /\ ctorError # "Server has unrecognized endianness"
            /\ wordsRead >= 2 => serverProtocolVersion = server.version
            /\ wordsRead >= 3 => numStreams = server.numStreams

C17_Witness ==
  /\ ctorPc = "done"
  /\ swapOnRead
  /\ endiannessFlag = SwappedMarker
  /\ numStreams = MaxStreams
  /\ rpc = "readHeader"

\* C18: when the server announces a protocol version other than the
\* client's, the constructor throws before it reads a sub-stream header and
\* before it starts the receiving thread.
C18_VersionMismatchFails ==
  (wordsRead >= 2 /\ serverProtocolVersion # ProtocolVersion) =>
    /\ ctorPc \in {"readNumStreams", "failed"}
    /\ streamHeadersRead = 0
    /\ rpc = "notStarted"

\* C19: the streaming callbacks call the observers from a snapshot of the
\* list taken under the list's lock: while an observer callback runs, the
\* thread that called it does not hold frameCallbacksMutex.
C19_ObserversCalledUnlocked ==
  \A t \in StreamingThreads :
    observerRunning[t] # 0 => frameCallbacksMutex # t

(***************************************************************************)
(* Properties of FrameBuffer                                               *)
(***************************************************************************)

\* Handles pointing at payload b: live handles whose buffer is b, except a
\* handle whose owner has released b and is about to overwrite the pointer.
Holders(b) ==
  {h \in Handles : hLive[h] /\ hBuffer[h] = b
                   /\ ~\E t \in Threads : tOp[t] # "idle" /\ tHandle[t] = h}

\* C8: in every interleaving of copy-construction, assignment, invalidate
\* and destruction by threads working on their own handles, a payload's
\* reference count equals the number of handles pointing at it, the payload
\* is deleted at most once, only by the thread whose unref() brought the
\* count to zero and as that thread's next step, and never while a handle
\* points at it; so a copy followed by its destruction leaves the count as
\* it was and the payload alive.
C8_RefCountIsHandleCount ==
  \A b \in Buffers :
    /\ refCount[b] = Cardinality(Holders(b))
    /\ freed[b] <= 1
    /\ freed[b] = 1 => Holders(b) = {}
    /\ (b < nextBuffer /\ refCount[b] = 0)
         => (freed[b] = 1 \/ \E t \in Threads : tOrphan[t] = b)
    /\ \A t \in Threads :
         tOrphan[t] = b => /\ refCount[b] = 0
                           /\ freed[b] = 0
                           /\ \A u \in Threads : tOrphan[u] = b => u = t

\* One payload has been deleted and the other is shared by handles of both
\* threads while one of them is in the middle of an operation.
C8_Witness ==
  /\ freed[1] = 1
  /\ refCount[2] = 2
  /\ \E g, h \in Holders(2) : hOwner[g] # hOwner[h]
  /\ \E t \in Threads : tOp[t] # "idle"

(***************************************************************************)
(* Properties of BackgroundViewer                                          *)
(***************************************************************************)

\* C9: once the payload of a frame buffer has been published (here: the
\* background frame handed to the projector), no step of the program writes
\* to that payload again.
C9_NoWriteAfterPublication ==
  [][backgroundPublished => background' = background]_vars

(***************************************************************************)
(* Properties of RawKinectViewer's depth frame triple buffer               *)
(***************************************************************************)

\* C10: with the streaming thread as the only producer and the main thread
\* as the only consumer, a call of lockNewValue returns true (frame() then
\* increments the frame version) exactly when at least one frame has been
\* posted since the previous successful lock, and the frame then locked is
\* the one posted last; otherwise it returns false and the locked frame is
\* the one locked before.  A frame posted over before any lock is never seen.
C10_LockNewValue ==
  /\ lastLock.called =>
       /\ lastLock.result <=> lastLock.pending >= 1
       /\ lastLock.result => lastLock.after = lastLock.posted
       /\ ~lastLock.result => lastLock.after = lastLock.before
  /\ seenDepth \cap overwrittenDepth = {}
  /\ depthFrameVersion = Cardinality(seenDepth)

\* Two frames were posted without a lock in between and the main thread
\* then locked the second, while the streaming thread was already writing
\* the next one.
C10_Witness ==
  /\ lastLock.called /\ lastLock.result
  /\ lastLock.pending = 2
  /\ lastLock.after = 2
  /\ overwrittenDepth = {1}
  /\ cameraPc = "posting"

(***************************************************************************)
(* Properties of TiePointTool's triple buffers                             *)
(***************************************************************************)

AllDisksPosted == nextDisk > MaxValue

\* C11: while the disk extractor posts lists numbered 0, 1, ... and the
\* main thread locks concurrently, the slot the producer writes is the
\* write slot and never the locked slot (which is the only one the consumer
\* reads), the numbers of the lists the consumer locks never decrease, the
\* producer's next step is always enabled until it has posted its last
\* list, and once the last list is posted the consumer eventually locks it.
C11_TripleBufferUnderContention ==
  /\ [](diskPc \in {"started", "assigned"}
          => diskSlot = diskBuffer.write /\ diskSlot # diskBuffer.locked)
  /\ [](cornerPc = "writing"
          => cornerSlot = cornerBuffer.write /\ cornerSlot # cornerBuffer.locked)
  /\ [][getLockedValue(diskBuffer').seq >= getLockedValue(diskBuffer).seq]_vars
  /\ [](~AllDisksPosted => ENABLED DiskExtractionCallback)
  /\ (AllDisksPosted ~> getLockedValue(diskBuffer).seq = MaxValue)

\* The consumer holds list 0 and has not seen list 1, which is the most
\* recent one, while the producer is assigning list 2 to the write slot.
C11_Witness ==
  /\ getLockedValue(diskBuffer).seq = 0
  /\ diskBuffer.fresh /\ diskBuffer.slot[diskBuffer.mostRecent].seq = 1
  /\ diskPc = "assigned" /\ diskBuffer.slot[diskSlot].seq = 2

\* the intrinsic parameter file name names a file with all its blocks
Complete(file) == file # Missing /\ file.blocks = OriginalFile.blocks

\* C21: at every point during and after the writing of the intrinsic
\* parameter file, also when the writing stops part-way, the file name names
\* a complete file, with the contents from before or with the new ones.
C21_FileAlwaysComplete ==
  /\ Complete(intrinsicParameterFile)
  /\ \/ intrinsicParameterFile = calibration.fileBefore
     \/ intrinsicParameterFile.pairs = calibration.pairs

\* C22: a system of rank below 11 makes the calibration report that no
\* solution was found, and nothing is written.
C22_RankDeficientNotFound ==
  (calibration.by # "none" /\ calibration.rank < 11) =>
    /\ calibration.outcome # "solved"
    /\ persistPc = "idle"
    /\ intrinsicParameterFile = calibration.fileBefore

\* C20: a calibration is solved only from at least 5 tie point pairs; an
\* attempt with fewer pairs ends in an error, solves nothing and leaves the
\* intrinsic parameter file as it was.
C20_SolveNeedsFivePairs ==
  /\ calibration.outcome = "solved" => calibration.pairs >= MinTiePoints
  /\ (calibration.by # "none" /\ calibration.pairs < MinTiePoints) =>
       /\ calibration.outcome = "error"
       /\ intrinsicParameterFile = calibration.fileBefore

(***************************************************************************)
(* Properties of the direct camera source                                  *)
(***************************************************************************)

ThreadExists == camThread \in {"loop", "calling"}

\* C12: startStreaming on a source that is already streaming fails (the
\* call reports busy exactly when the run flag was set) and leaves the
\* active session as it was: the installed callbacks and the run flag are
\* those from before the call, no callback has been deleted and the
\* streaming thread still runs.
C12_BusyLeavesSessionUnchanged ==
  camLast.op = "start" =>
    /\ camLast.result = "busy" <=> camLast.before.runStreamingThread
    /\ camLast.result = "busy" =>
         /\ camera = camLast.before
         /\ camDeleted = camLast.deletedBefore
         /\ ThreadExists

\* A second startStreaming was rejected while the streaming thread of the
\* first session was inside a callback.
C12_Witness ==
  /\ camLast.op = "start" /\ camLast.result = "busy"
  /\ camThread = "calling" /\ camCalling \in Callbacks(camera)

\* C14: stopStreaming does nothing when no session is active; otherwise it
\* clears the run flag and deletes the callbacks only after the streaming
\* thread has been joined, so that the thread is never inside a deleted
\* callback object nor inside any callback once stopStreaming has returned;
\* after it has returned the source is idle: run flag false, no callbacks,
\* no thread, and the next startStreaming is not rejected as busy.
C14_StopStreaming ==
  /\ camCalling # 0 =>
       /\ camCalling \notin camDeleted
       /\ camera.runStreamingThread \/ camCaller = "joining"
  /\ (camLast.op = "stop" /\ camLast.result = "noop") =>
       /\ ~camLast.before.runStreamingThread
       /\ camera = camLast.before
       /\ camDeleted = camLast.deletedBefore
  /\ (camLast.op = "stop" /\ camLast.result = "joining") =>
       /\ ~camera.runStreamingThread
       /\ camDeleted = camLast.deletedBefore
  /\ (camLast.op = "stop" /\ camLast.result \in {"stopped", "stopFailed"}) =>
       /\ ~camera.runStreamingThread
       /\ Callbacks(camera) = {}
       /\ Callbacks(camLast.before) \subseteq camDeleted
       /\ camThread = "none"
  /\ (camLast.op = "start" /\ ~camLast.before.runStreamingThread) =>
       camLast.result # "busy"

\* stopStreaming is waiting in join() while the streaming thread is still
\* inside a callback of the session being stopped.
C14_Witness ==
  /\ camLast.op = "stop" /\ camLast.result = "joining"
  /\ camThread = "calling"
  /\ camCalling \in Callbacks(camera)

\* C16: when the device fails to start inside startStreaming, the call
\* fails and the source is idle: the callbacks offered have been deleted
\* and the source's callback pointers cleared, the run flag is false and
\* there is no streaming thread; the startStreaming after a failed one is
\* not rejected as busy.
C16_StartFailureLeavesIdle ==
  /\ (camLast.op = "start" /\ camLast.result = "failed") =>
       /\ Callbacks(camera) = {}
       /\ camLast.offered \subseteq camDeleted
       /\ ~camera.runStreamingThread
       /\ camThread = "none"
  /\ (camLast.op = "start" /\ camLast.afterFailure) =>
       camLast.result # "busy"

\* A startStreaming with two callbacks failed and the following one
\* succeeded.
C16_Witness ==
  /\ camLast.op = "start" /\ camLast.afterFailure
  /\ camLast.result = "started"
  /\ {1, 2} \subseteq camDeleted
  /\ ThreadExists

(***************************************************************************)
(* Properties of the multiplexed source                                    *)
(***************************************************************************)

\* What the server has sent so far holds no frame id twice within one
\* metaframe, and consecutive metaframes have different indices.
NoDuplicateFrames ==
  \A k \in DOMAIN srvSent :
    /\ HasNoDuplicate(srvSent[k].ids)
    /\ k > 1 => srvSent[k].idx # srvSent[k - 1].idx

\* What the server has sent so far are complete metaframes: one color and
\* one depth frame per sub-stream each, consecutive indices different.
CompleteMetaframes ==
  \A k \in DOMAIN srvSent :
    /\ IsPermutation(srvSent[k].ids, numStreams)
    /\ k > 1 => srvSent[k].idx # srvSent[k - 1].idx

AllStreaming ==
  \A i \in StreamIds(numStreams) :
    streaming[i] /\ colorStreamingCallback[i] # 0 /\ depthStreamingCallback[i] # 0

\* The receive thread has consumed everything the server has sent.
AllReceived == pipe = <<>> /\ rpc = "readHeader"

NumCallbacks(kind) == Cardinality({k \in DOMAIN callbacks : callbacks[k].kind = kind})

\* During a dispatch pass: how many frames with the given id were received
\* since the previous change of the metaframe index, that is, were sent
\* under the index being closed (the server never returns to an index).
ReceivedSinceChange(id) ==
  Cardinality({kj \in ((DOMAIN srvSent) \X (1 .. 2 * MaxStreams)) :
                 /\ srvSent[kj[1]].idx = currentMetaFrameIndex
                 /\ kj[2] \in DOMAIN srvSent[kj[1]].ids
                 /\ srvSent[kj[1]].ids[kj[2]] = id})

\* C1: callbacks are dispatched at a change of the metaframe index only if
\* every sub-stream delivered exactly one color and one depth frame since
\* the previous change, so every frame passed to a callback is valid and
\* was received under the metaframe index being closed.
C1_DispatchOnlyComplete ==
  /\ rpc \in {"lockStreams", "loop", "color", "colorRunning", "depth", "depthRunning"}
       => \A id \in FrameIds(numStreams) : ReceivedSinceChange(id) = 1
  /\ \A k \in DOMAIN callbacks :
       /\ callbacks[k].frame # NoFrame
       /\ callbacks[k].frame.mf = callbacks[k].closing

C4_AllMetaframesDelivered ==
  (CompleteMetaframes /\ AllStreaming /\ AllReceived) =>
    /\ NumCallbacks("color") = Len(srvSent) * numStreams
    /\ NumCallbacks("depth") = Len(srvSent) * numStreams

\* C4 amended: after M >= 1 complete metaframes have been received with
\* every sub-stream streaming, exactly (M-1)*N color and (M-1)*N depth
\* callbacks have been invoked, each on the sub-stream frame_id div 2 of the
\* frame it carries; every metaframe but the last was delivered once, and
\* the last one is still waiting for the header of a following metaframe.
C4_AllButLastDelivered ==
  (CompleteMetaframes /\ AllStreaming /\ AllReceived /\ srvSent # <<>>) =>
    /\ NumCallbacks("color") = (Len(srvSent) - 1) * numStreams
    /\ NumCallbacks("depth") = (Len(srvSent) - 1) * numStreams
    /\ \A k \in DOMAIN callbacks :
         /\ callbacks[k].stream = StreamIndex(callbacks[k].frame.id)
         /\ callbacks[k].kind = KindOf(callbacks[k].frame.id)
    /\ \A m \in 1 .. Len(srvSent) - 1 : \A id \in FrameIds(numStreams) :
         Cardinality({k \in DOMAIN callbacks :
                        /\ callbacks[k].frame.mf = srvSent[m].idx
                        /\ callbacks[k].frame.id = id}) = 1
    /\ \A k \in DOMAIN callbacks :
         callbacks[k].frame.mf # srvSent[Len(srvSent)].idx

C4_Witness ==
  /\ CompleteMetaframes /\ AllStreaming /\ AllReceived
  /\ Len(srvSent) = MaxMeta
  /\ numStreams = MaxStreams
  /\ NumCallbacks("color") = (MaxMeta - 1) * MaxStreams

\* C5 as stated: within a delivered metaframe the callbacks are invoked in
\* the order in which the server sent the frames.
C5_ServerOrderPreserved ==
  CompleteMetaframes =>
    \A p, q \in DOMAIN callbacks :
      (p < q /\ callbacks[p].closing = callbacks[q].closing)
        => callbacks[p].frame.seq < callbacks[q].frame.seq

\* C5 amended: within a delivered metaframe the callbacks are invoked in
\* ascending frame id order (sub-streams ascending, color before depth of
\* the same sub-stream), whatever the order the server sent the frames in.
C5_AscendingFrameIdOrder ==
  CompleteMetaframes =>
    \A p, q \in DOMAIN callbacks :
      (p < q /\ callbacks[p].closing = callbacks[q].closing)
        => callbacks[p].frame.id < callbacks[q].frame.id

C5_Witness ==
  /\ CompleteMetaframes
  /\ \E p, q \in DOMAIN callbacks :
       /\ p < q /\ callbacks[p].closing = callbacks[q].closing
       /\ callbacks[p].frame.seq > callbacks[q].frame.seq
       /\ callbacks[p].frame.id < callbacks[q].frame.id

\* The member variables of the MultiplexedFrameSource object.
SourceState == <<numStreams, frames, numStreamsAlive, streams, streamMutex>>

C3_NoCallbackAfterStop ==
  /\ \A i \in StreamIds(numStreams) : stopReturned[i] => running.stream # i
  /\ running # NoCall => running.cb \notin cbDeleted
  /\ running # NoCall => streamingMutex[running.stream] = "recv"

C3_Witness ==
  \E i \in StreamIds(numStreams) :
    /\ stopReturned[i]
    /\ upc[i] = "idle"
    /\ \E k \in DOMAIN callbacks : callbacks[k].stream = i
    /\ running # NoCall

\* C6: the source is destroyed exactly once, by the destructor of the
\* stream that brings numStreamsAlive to 0, and never while another stream
\* is still registered.
C6_OwnerDestroyedOnce ==
  /\ ownerDeleted <= 1
  /\ ownerDeleted = 1 =>
       /\ numStreamsAlive = 0
       /\ \A i \in StreamIds(numStreams) : ~streams[i] /\ upc[i] \in {"lastCheck", "dead"}
  /\ (\A i \in StreamIds(numStreams) : upc[i] = "dead") => ownerDeleted = 1
  /\ Cardinality({i \in StreamIds(numStreams) : lastOneOut[i]}) <= 1
  /\ \A i \in StreamIds(numStreams) :
       (upc[i] = "dead" /\ lastOneOut[i]) => ownerDeleted = 1
  /\ numStreamsAlive = Cardinality({i \in StreamIds(numStreams) : streams[i]})

C6_Witness ==
  /\ numStreams = MaxStreams
  /\ ownerDeleted = 1
  /\ \A i \in StreamIds(numStreams) : upc[i] = "dead"
  /\ callbacks # <<>>

\* a step of the caller of sub-stream i
StepOfStream(i) ==
  \/ StartStreaming(i)
  \/ StopCall(i)
  \/ StopStreaming(i)
  \/ DestroyCallbacks(i)
  \/ Unregister(i)
  \/ DestroyOwner(i)

\* C40: starting, stopping or destroying sub-stream i leaves the streaming
\* flag, the installed callbacks and the registration of every other
\* sub-stream as they were and does not end the source while another
\* sub-stream is registered; the dispatch pass skips no registered,
\* streaming sub-stream, and a sub-stream it has entered stays streaming,
\* with its callbacks, until both were called with the frames of its slots.
C40_OtherStreamsUnaffected ==
  /\ [](rpc \in {"color", "colorRunning", "depth", "depthRunning"} =>
         /\ streams[loopI] /\ streaming[loopI]
         /\ streamingMutex[loopI] = "recv")
  /\ [](running # NoCall =>
         /\ running.stream = loopI
         /\ running.cb \in Installed(loopI)
         /\ running.cb \notin cbDeleted
         /\ callbacks[Len(callbacks)].stream = loopI
         /\ callbacks[Len(callbacks)].cb = running.cb
         /\ callbacks[Len(callbacks)].frame = frames[FrameSlot(loopI, running.kind)])
  /\ []((\E j \in StreamIds(numStreams) : streams[j]) =>
         ownerDeleted = 0 /\ rpc # "cancelled")
  /\ [][/\ \A i \in StreamIds(numStreams) :
            StepOfStream(i) =>
              \A j \in StreamIds(numStreams) \ {i} :
                /\ streaming'[j] = streaming[j]
                /\ colorStreamingCallback'[j] = colorStreamingCallback[j]
                /\ depthStreamingCallback'[j] = depthStreamingCallback[j]
                /\ streams'[j] = streams[j]
        /\ DispatchSkip => ~(streams[loopI] /\ streaming[loopI])]_vars

\* sub-stream 1 is being called with a frame after sub-stream 0 was stopped
\* or destroyed
C40_Witness ==
  /\ numStreams = MaxStreams
  /\ stopReturned[0]
  /\ ~streaming[0]
  /\ running # NoCall /\ running.stream = 1
  /\ \E k \in DOMAIN callbacks : callbacks[k].stream = 0

\* C13: one streaming session per source at a time: a call of
\* startStreaming on a sub-stream that is already streaming neither
\* replaces nor deletes the callbacks of the active session.
C13_StartDoesNotReplaceSession ==
  [][\A i \in StreamIds(numStreams) :
       (streaming[i] /\ streaming'[i]) =>
         /\ colorStreamingCallback'[i] = colorStreamingCallback[i]
         /\ depthStreamingCallback'[i] = depthStreamingCallback[i]
         /\ Installed(i) \cap cbDeleted' = Installed(i) \cap cbDeleted]_vars

====
